---------------------------- MODULE Spec2Model ----------------------------
(***************************************************************************)
(* Protection sequence of CapCut Version Guard.                            *)
(*                                                                         *)
(* Two revisions of the sequence are modelled over one filesystem:         *)
(*   - the Tauri command layer  (src-tauri/src/commands/protector.rs):     *)
(*     run_full_protection, delete_versions, apply_protection,             *)
(*     apply_protection_with_options;                                      *)
(*   - the egui wizard worker   (src/main.rs): run_fix_sequence.           *)
(* Both share lock_configuration, create_dummy_files, create_readonly and  *)
(* unset_readonly_recursive, whose bodies are the same in the two files.   *)
(*                                                                         *)
(* Text is a tuple of one-character strings, Option<T> is a tuple of       *)
(* length 0 (None) or 1 (Some), a log entry or an error message is the     *)
(* tuple of the pieces its format! call concatenates.                      *)
(***************************************************************************)
EXTENDS Integers, Sequences, FiniteSets, TLC

VARIABLES
    prog,           \* the entry point whose run is in progress ("none" before a run)
    pc,             \* position of the run inside the code
    params,         \* arguments of the entry point
    localappdata,   \* is the LOCALAPPDATA environment variable set
    fs,             \* the filesystem under %LOCALAPPDATA%\CapCut
    fs0,            \* history: the filesystem before the run
    i,              \* loop index over versions_to_delete (1-based)
    all_logs,       \* run_full_protection's all_logs
    logs,           \* the logs vector of the callee (delete_versions, apply_protection*)
    delete_result,  \* Option<ProtectionResult> returned by delete_versions
    protect_result, \* Option<ProtectionResult> returned by apply_protection*
    ret,            \* Option<Result<(), String>> of the helper that last returned
    sent,           \* WorkerMessages sent on tx by run_fix_sequence, in order
    result,         \* Option<ProtectionResult> returned by the entry point
    checked,        \* what the process check saw: "none", "running", "clear"
    stage,          \* state of the orchestrator's state machine
    ops,            \* history: filesystem operations attempted, in order
    trail,          \* history: log entries in the order they were pushed
    apps,           \* the Apps directory as read_dir sees it (version scans)
    scanned,        \* Option<what the scan or clean_versions returned>
    doc,            \* configure.ini over successive calls of lock_configuration
    app,            \* the wizard: the fields of CapCutGuardApp
    rx,             \* the wizard's channel: WorkerMessages sent and not yet received
    prechecks,      \* the wizard's pre-check workers that have not sent their result
    requests        \* history: how often check_requested and fix_requested were set

\* the variables of the protection sequence
rvars == <<prog, pc, params, localappdata, fs, fs0, i, all_logs, logs, delete_result,
           protect_result, ret, sent, result, checked, stage, ops, trail>>

\* the variables the protection sequence does not touch but for its sends on tx
uvars == <<apps, scanned, doc, app, prechecks, requests>>

vars == <<rvars, uvars, rx>>

-----------------------------------------------------------------------------
(* Bounds *)

\* number of version directories under Apps
NumVersions == 2
\* longest versions_to_delete list an entry point is called with
MaxDelete == 2

-----------------------------------------------------------------------------
(* Option and Result *)

None == << >>
Some(x) == <<x>>
IsSome(o) == Len(o) = 1
Unwrap(o) == o[1]

Ok == [ok |-> TRUE, err |-> << >>]
Err(e) == [ok |-> FALSE, err |-> e]

\* io::Error::to_string() of a failed filesystem call
IoError == "io error"

-----------------------------------------------------------------------------
(* Text *)

VersionNames == <<"1.5.0", "2.9.0", "3.2.0", "10.0.0">>
Versions == {VersionNames[k] : k \in 1..NumVersions}

KEY == <<"l", "a", "s", "t", "_", "v", "e", "r", "s", "i", "o", "n">>
LOCKED_LINE == KEY \o <<"=", "1", ".", "0", ".", "0", ".", "0">>

\* char::is_whitespace, on the characters the model uses
IsWhitespace(c) == c \in {" ", "\t", "\r", "\n"}

RECURSIVE TrimStart(_)
TrimStart(s) ==
    IF s # << >> /\ IsWhitespace(Head(s)) THEN TrimStart(Tail(s)) ELSE s

RECURSIVE TrimEnd(_)
TrimEnd(s) ==
    IF s # << >> /\ IsWhitespace(s[Len(s)])
    THEN TrimEnd(SubSeq(s, 1, Len(s) - 1))
    ELSE s

\* str::trim
Trim(s) == TrimEnd(TrimStart(s))

\* str::starts_with
StartsWith(s, p) == Len(s) >= Len(p) /\ SubSeq(s, 1, Len(p)) = p

\* one line of str::lines: the terminating "\n" is dropped, and a "\r" before it
StripEol(l) ==
    IF l # << >> /\ l[Len(l)] = "\n"
    THEN LET m == SubSeq(l, 1, Len(l) - 1)
         IN  IF m # << >> /\ m[Len(m)] = "\r" THEN SubSeq(m, 1, Len(m) - 1) ELSE m
    ELSE l

\* str::lines: split after every "\n"; an empty remainder is not a line
RECURSIVE LinesFrom(_, _)
LinesFrom(s, cur) ==
    IF s = << >>
    THEN IF cur = << >> THEN << >> ELSE <<StripEol(cur)>>
    ELSE IF Head(s) = "\n"
         THEN <<StripEol(Append(cur, "\n"))>> \o LinesFrom(Tail(s), << >>)
         ELSE LinesFrom(Tail(s), Append(cur, Head(s)))

Lines(s) == LinesFrom(s, << >>)

\* join with no separator
RECURSIVE Join_Concat(_)
Join_Concat(ls) == IF ls = << >> THEN << >> ELSE Head(ls) \o Join_Concat(Tail(ls))

\* [String]::join("\n")
RECURSIVE Join(_)
Join(ls) ==
    IF ls = << >> THEN << >>
    ELSE IF Len(ls) = 1 THEN ls[1]
    ELSE ls[1] \o <<"\n">> \o Join(Tail(ls))

\* the for loop pushing line.trim() for a line that does not match
NewLines_Trimmed(ls) ==
    [k \in 1..Len(ls) |->
        IF StartsWith(Trim(ls[k]), KEY) THEN LOCKED_LINE ELSE Trim(ls[k])]

\* the for loop of lock_configuration: new_lines
NewLines(ls) ==
    [k \in 1..Len(ls) |->
        IF StartsWith(Trim(ls[k]), KEY) THEN LOCKED_LINE ELSE ls[k]]

\* the found flag never set
Found_Never(ls) == FALSE

\* the found flag of lock_configuration after the loop
Found(ls) == \E k \in 1..Len(ls) : StartsWith(Trim(ls[k]), KEY)

\* new_lines with the matching lines dropped and one locked line put last
new_lines_OneKey(content) ==
    SelectSeq(NewLines(Lines(content)), LAMBDA l : l # LOCKED_LINE) \o <<LOCKED_LINE>>

\* new_lines of lock_configuration when it writes, for the text it read
new_lines(content) ==
    LET ls == Lines(content)
    IN  IF Found(ls) THEN NewLines(ls) ELSE Append(NewLines(ls), LOCKED_LINE)

\* the text lock_configuration writes for the text it read
LockedContent(content) == Join(new_lines(content))

-----------------------------------------------------------------------------
(* Filesystem *)

\* a path that may hold a file or a directory
Absent == [kind |-> "absent", readonly |-> FALSE, empty |-> TRUE]
EmptyFile == [kind |-> "file", readonly |-> FALSE, empty |-> TRUE]
Placeholder == [kind |-> "file", readonly |-> TRUE, empty |-> TRUE]
RealFile == [kind |-> "file", readonly |-> FALSE, empty |-> FALSE]
Directory == [kind |-> "dir", readonly |-> FALSE, empty |-> FALSE]

ConfigPath == <<"Apps", "configure.ini">>
PinfoPath == <<"Apps", "ProductInfo.xml">>
DownloadPath == <<"User Data", "Download">>
UpdateExePath == <<"User Data", "Download", "update.exe">>
VersionPath(name) == <<"Apps", name>>
CachePath == <<"cache">>

Op(op, path, ok) == [op |-> op, path |-> path, ok |-> ok]

\* configure.ini as the installer leaves it, and as an earlier run left it
ConfigOld ==
    <<"f", "o", "o", "=", "1", "\n">> \o KEY \o <<"=", "5", ".", "0", "\n", "b", "=", "2", "\n">>
ConfigNoKey == <<"f", "o", "o", "=", "1">>

InitConfigs == {None, Some(ConfigOld), Some(ConfigNoKey)}

InitFs ==
    { [versions |-> [v \in Versions |-> "present"],
       config |-> c, pinfo |-> p, download |-> d[1], update_exe |-> d[2]] :
        c \in InitConfigs,
        p \in {Absent, RealFile, Placeholder, Directory},
        d \in {<<FALSE, Absent>>, <<TRUE, Absent>>, <<TRUE, Placeholder>>} }

\* unset_readonly_recursive returning the error of a failed set_permissions
unset_readonly_recursive_Fails(path) == Err(<<IoError>>)

\* unset_readonly_recursive(path): entries and metadata that cannot be read are
\* skipped, the result of set_permissions is dropped, the return is Ok(())
unset_readonly_recursive(path) == Ok

\* the log entry of the callers that look at its result
Warning(r) == IF r.ok THEN << >> ELSE <<<<"[!] Warning: ">> \o r.err>>

\* unset_readonly_recursive on one path: best effort, the attribute may stay
AfterUnset(s) ==
    IF s.readonly THEN {s, [s EXCEPT !.readonly = FALSE]} ELSE {s}

\* fs::remove_dir_all on a version directory: the states it can leave and its result
RemoveDirAll(state) ==
    IF state = "absent"
    THEN {[state |-> "absent", ok |-> FALSE]}
    ELSE {[state |-> "absent", ok |-> TRUE],
          [state |-> state, ok |-> FALSE],
          [state |-> "partial", ok |-> FALSE]}

\* WriteAndAttrib with the error of fs::write dropped (.ok() for ?)
WriteAndAttrib_IgnoresWriteError(path, done) ==
    { [st |-> Absent, ret |-> Ok,
       ops |-> Append(done, Op("write", path, FALSE))] }
    \cup
    { [st |-> f, ret |-> Ok,
       ops |-> done \o <<Op("write", path, TRUE), Op("attrib", path, TRUE)>>] :
        f \in {EmptyFile, Placeholder} }

\* fs::write(path, "") followed by attrib +r: Command::output() fails only
\* when attrib cannot be spawned, its exit status is not looked at
WriteAndAttrib(path, done) ==
    { [st |-> Absent, ret |-> Err(<<IoError>>),
       ops |-> Append(done, Op("write", path, FALSE))] }
    \cup
    { [st |-> EmptyFile, ret |-> Err(<<IoError>>),
       ops |-> done \o <<Op("write", path, TRUE), Op("attrib", path, FALSE)>>] }
    \cup
    { [st |-> f, ret |-> Ok,
       ops |-> done \o <<Op("write", path, TRUE), Op("attrib", path, TRUE)>>] :
        f \in {EmptyFile, Placeholder} }

\* create_readonly with the removal's error dropped (.ok() for ?)
create_readonly_IgnoresRemoval(path, s) ==
    IF s.kind = "absent"
    THEN WriteAndAttrib(path, << >>)
    ELSE LET rm == IF s.kind = "dir" THEN "remove_dir_all" ELSE "remove_file"
             unset == Op("unset_readonly_recursive", path, TRUE)
         IN  WriteAndAttrib(path, <<unset, Op(rm, path, FALSE)>>)
             \cup
             WriteAndAttrib(path, <<unset, Op(rm, path, TRUE)>>)

\* create_readonly(path) on a path in state s: every outcome
create_readonly(path, s) ==
    IF s.kind = "absent"
    THEN WriteAndAttrib(path, << >>)
    ELSE LET rm == IF s.kind = "dir" THEN "remove_dir_all" ELSE "remove_file"
             unset == Op("unset_readonly_recursive", path, unset_readonly_recursive(path).ok)
         IN  { [st |-> u, ret |-> Err(<<IoError>>),
                ops |-> <<unset, Op(rm, path, FALSE)>>] : u \in AfterUnset(s) }
             \cup
             WriteAndAttrib(path, <<unset, Op(rm, path, TRUE)>>)

\* what lock_configuration reads of configure.ini in state c: the text, or
\* nothing when the file is absent or cannot be read (unwrap_or_default)
Contents(c) == IF IsSome(c) THEN {Unwrap(c), << >>} ELSE {<< >>}

\* lock_configuration with the read error returned (? for unwrap_or_default)
lock_configuration_ReadFails(c) ==
    { [config |-> Some(LockedContent(content)), ret |-> Ok,
       ops |-> <<Op("write", ConfigPath, TRUE)>>] : content \in Contents(c) }
    \cup
    { [config |-> c, ret |-> Err(<<IoError>>), ops |-> << >>] }

\* lock_configuration on configure.ini in state c (Option<text>): every outcome
lock_configuration(c) ==
    { [config |-> Some(LockedContent(content)), ret |-> Ok,
       ops |-> <<Op("write", ConfigPath, TRUE)>>] : content \in Contents(c) }
    \cup
    { [config |-> f, ret |-> Err(<<IoError>>),
       ops |-> <<Op("write", ConfigPath, FALSE)>>] : f \in {c, Some(<< >>)} }

-----------------------------------------------------------------------------
(* Version scans: read_dir on the Apps directory, the comparators, the sort *)

\* entries the Apps directory can hold, beside the ones a scan never sees
NumEntries == 3

Range(s) == {s[k] : k \in 1..Len(s)}

DirNames == <<"10.0.0", "2.9.0", "3.2.0", "1.5.0">>
Names == {DirNames[k] : k \in 1..NumEntries}

\* str::chars of a directory name
Chars(name) ==
    CASE name = "1.5.0" -> <<"1", ".", "5", ".", "0">>
      [] name = "2.9.0" -> <<"2", ".", "9", ".", "0">>
      [] name = "3.2.0" -> <<"3", ".", "2", ".", "0">>
      [] name = "10.0.0" -> <<"1", "0", ".", "0", ".", "0">>

Digits == <<"0", "1", "2", "3", "4", "5", "6", "7", "8", "9">>

\* char::is_numeric, on the characters of the names
IsNumeric(c) == \E d \in 1..Len(Digits) : Digits[d] = c

\* the digit's value
DigitValue(c) == (CHOOSE d \in 1..Len(Digits) : Digits[d] = c) - 1

\* the character's code point: "." is 46, the digits are 48..57
CharCode(c) == IF IsNumeric(c) THEN 48 + DigitValue(c) ELSE 46

\* Ord::cmp on two numbers
Cmp(x, y) == IF x < y THEN "Less" ELSE IF x > y THEN "Greater" ELSE "Equal"

\* str::cmp: the first differing character decides, then the length
RECURSIVE StrCmp(_, _)
StrCmp(s1, s2) ==
    IF s1 = << >> \/ s2 = << >> THEN Cmp(Len(s1), Len(s2))
    ELSE IF Head(s1) # Head(s2) THEN Cmp(CharCode(Head(s1)), CharCode(Head(s2)))
    ELSE StrCmp(Tail(s1), Tail(s2))

\* the leading digit run of s as a number, and what follows it
RECURSIVE TakeNumeric(_, _)
TakeNumeric(s, sum) ==
    IF s # << >> /\ IsNumeric(Head(s))
    THEN TakeNumeric(Tail(s), sum * 10 + DigitValue(Head(s)))
    ELSE [value |-> sum, rest |-> s]

\* human_sort::compare: digit runs by value, other characters one by one
RECURSIVE HumanCompare(_, _)
HumanCompare(s1, s2) ==
    IF s1 = << >> \/ s2 = << >> THEN Cmp(Len(s1), Len(s2))
    ELSE IF IsNumeric(Head(s1)) /\ IsNumeric(Head(s2))
    THEN LET n1 == TakeNumeric(s1, 0)
             n2 == TakeNumeric(s2, 0)
         IN  IF n1.value # n2.value THEN Cmp(n1.value, n2.value)
             ELSE HumanCompare(n1.rest, n2.rest)
    ELSE IF Head(s1) # Head(s2) THEN Cmp(CharCode(Head(s1)), CharCode(Head(s2)))
    ELSE HumanCompare(Tail(s1), Tail(s2))

\* the comparator of main.rs, on directory names
ByHumanSort ==
    [a \in Range(DirNames), b \in Range(DirNames) |-> HumanCompare(Chars(a), Chars(b))]

\* the comparator of scanner.rs, on directory names
ByName ==
    [a \in Range(DirNames), b \in Range(DirNames) |-> StrCmp(Chars(a), Chars(b))]

\* the orders in which the members of S can be listed
Orders(S) ==
    { l \in [1..Cardinality(S) -> S] : \A x \in S : \E k \in 1..Cardinality(S) : l[k] = x }

\* slice::sort_by: ascending by compare, equal elements keep their order
SortBy(l, compare) ==
    CHOOSE t \in Orders(Range(l)) :
        \A j, k \in 1..Len(t) : j < k =>
            /\ compare[t[j], t[k]] # "Greater"
            /\ compare[t[j], t[k]] = "Equal" =>
                   (CHOOSE x \in 1..Len(l) : l[x] = t[j]) < (CHOOSE x \in 1..Len(l) : l[x] = t[k])

\* the Apps directory: whether read_dir can open it, and what each name is there;
\* "locked" is a subdirectory read_dir yields as Err or whose metadata cannot be read
RootStates == {"missing", "unreadable", "readable"}
EntryKinds == {"absent", "dir", "file", "locked"}
AppsStates ==
    { [root |-> r, entries |-> e] : r \in RootStates, e \in [Names -> EntryKinds] } \
    { a \in [root : {"missing"}, entries : [Names -> EntryKinds]] :
        \E n \in Names : a.entries[n] # "absent" }
NoApps == [root |-> "missing", entries |-> [n \in Names |-> "absent"]]

\* Path::exists on the Apps directory
Exists(a) == a.root # "missing"

\* fs::read_dir: an error, or the entries in the order the system lists them
ReadDir(a) ==
    IF a.root = "readable"
    THEN {[ok |-> TRUE, list |-> l] :
            l \in Orders({n \in DOMAIN a.entries : a.entries[n] # "absent"})}
    ELSE {[ok |-> FALSE, list |-> << >>]}

\* Path::is_dir with every entry taken for a directory
IsDir_Any(a, name) == TRUE

\* filter_map(|e| e.ok()) and Path::is_dir: false when the metadata cannot be read
IsDir(a, name) == a.entries[name] = "dir"

\* the directories among the listed entries, in listing order
Collect(a, list) == SelectSeq(list, LAMBDA name : IsDir(a, name))

\* main.rs scan_versions(apps_path), read_dir having answered rd
scan_versions(a, rd) ==
    IF ~Exists(a) THEN << >> ELSE SortBy(Collect(a, rd.list), ByHumanSort)

\* scanner.rs scan_versions(), read_dir having answered rd
scan_versions_command(env, a, rd) ==
    IF ~(env /\ Exists(a)) THEN << >> ELSE SortBy(Collect(a, rd.list), ByName)

\* dirs.last() with the first directory taken
Victim_First(dirs) == dirs[1]

\* dirs.last() of clean_versions
Victim(dirs) == dirs[Len(dirs)]

\* clean_versions(apps_path), read_dir having answered rd: the directory it
\* removes (if any) and every result it can return
clean_versions(a, rd) ==
    IF ~rd.ok THEN {[apps |-> a, ret |-> Err(<<IoError>>)]}
    ELSE LET dirs == SortBy(Collect(a, rd.list), ByHumanSort)
         IN  IF Len(dirs) > 1
             THEN LET unset == unset_readonly_recursive(VersionPath(Victim(dirs)))
                  IN  IF ~unset.ok THEN {[apps |-> a, ret |-> unset]}
                      ELSE { [apps |-> [a EXCEPT !.entries[Victim(dirs)] = "absent"], ret |-> Ok],
                             [apps |-> a, ret |-> Err(<<"Failed to delete ", VersionPath(Victim(dirs)), ": ", IoError>>)] }
             ELSE {[apps |-> a, ret |-> Ok]}

-----------------------------------------------------------------------------
(* ProtectionResult and the worker's messages *)

ProtectionResult(success, error, l) == [success |-> success, error |-> error, logs |-> l]

StepUpdate(step) == [type |-> "StepUpdate", step |-> step, text |-> << >>, res |-> Ok]
LogMessage(text) == [type |-> "LogMessage", step |-> "", text |-> text, res |-> Ok]
FixComplete(res) == [type |-> "FixComplete", step |-> "", text |-> << >>, res |-> res]

RunningError == <<"CapCut is still running. Please close it.">>
EnvError == <<"Failed to get LOCALAPPDATA">>
PathError == <<"CapCut path not found">>
DeleteError(name, e) == <<"Failed to delete ", name, ": ", e>>

\* the entry points that run the whole sequence
Orchestrators == {"run_full_protection", "run_fix_sequence"}

\* lists of paths a caller can pass as versions_to_delete
RECURSIVE SeqsUpTo(_, _)
SeqsUpTo(S, n) ==
    IF n = 0 THEN {<< >>}
    ELSE LET shorter == SeqsUpTo(S, n - 1)
         IN  shorter \cup {Append(q, x) : q \in {r \in shorter : Len(r) = n - 1}, x \in S}

PathLists == SeqsUpTo(Versions, MaxDelete)

NoParams ==
    [versions_to_delete |-> << >>, clean_cache |-> FALSE, lock_config |-> FALSE,
     create_blockers |-> FALSE, capcut_path |-> None, selected_version |-> None]

\* only the entry points that run the whole sequence have a stage
StageTo(s) == stage' = IF prog \in Orchestrators THEN s ELSE stage

-----------------------------------------------------------------------------
(* State after construction: nothing has been called *)

\* no entry point has been called
AtRest ==
    /\ prog = "none"
    /\ pc = "idle"
    /\ params = NoParams
    /\ i = 1
    /\ all_logs = << >>
    /\ logs = << >>
    /\ delete_result = None
    /\ protect_result = None
    /\ ret = None
    /\ sent = << >>
    /\ result = None
    /\ checked = "none"
    /\ stage = "Idle"
    /\ ops = << >>
    /\ trail = << >>

\* CapCutGuardApp::new
Screen(name) == [name |-> name, msg |-> << >>]
NewApp ==
    [screen |-> Screen("Welcome"), current_step |-> "Scanning", action_log |-> << >>,
     capcut_found |-> FALSE, capcut_running |-> FALSE, capcut_path |-> None,
     available_versions |-> << >>, selected_version_idx |-> None,
     check_requested |-> FALSE, fix_requested |-> FALSE]

\* configure.ini before any call of lock_configuration
NewDoc(c) == [file |-> c, calls |-> << >>]

NoRequests == [check |-> 0, fix |-> 0]

\* no scan, no rewrite on its own, no wizard
Unused ==
    /\ apps = NoApps
    /\ scanned = None
    /\ doc = NewDoc(None)
    /\ app = NewApp
    /\ rx = << >>
    /\ prechecks = 0
    /\ requests = NoRequests

Init ==
    /\ AtRest
    /\ localappdata \in BOOLEAN
    /\ fs \in InitFs
    /\ fs0 = fs
    /\ Unused

-----------------------------------------------------------------------------
(* protector.rs: run_full_protection, delete_versions, apply_protection* *)

\* run_full_protection is called: all_logs gets its first entry
RunFullProtection ==
    /\ pc = "idle"
    /\ \E paths \in PathLists, cc, lc, cb \in BOOLEAN :
         params' = [NoParams EXCEPT !.versions_to_delete = paths, !.clean_cache = cc,
                                    !.lock_config = lc, !.create_blockers = cb]
    /\ prog' = "run_full_protection"
    /\ all_logs' = <<<<"Checking system state...">>>>
    /\ trail' = <<<<"Checking system state...">>>>
    /\ stage' = "CheckingProcess"
    /\ pc' = "check"
    /\ UNCHANGED <<localappdata, fs0, fs, i, logs, delete_result, protect_result, ret,
                   sent, result, checked, ops>>
    /\ UNCHANGED <<uvars, rx>>

\* AfterCheck with the call of delete_versions left out
AfterCheck_SkipsDelete == "cache"

\* where run_full_protection goes on after the process check: delete_versions
AfterCheck == "delete"

\* Halt with the early return left out
Halt_Never(running) == FALSE

\* the condition on which the process check ends the run
Halt(running) == running

\* CheckPassed with the push left out
CheckPassed_Silent == << >>

\* what run_full_protection pushes when the process check passed
CheckPassed == <<<<"[OK] No running instances">>>>

\* process::is_capcut_running() and what run_full_protection does with it
CheckProcess ==
    /\ pc = "check"
    /\ \E running \in BOOLEAN :
         IF Halt(running)
         THEN /\ checked' = IF running THEN "running" ELSE "clear"
              /\ result' = Some(ProtectionResult(FALSE, Some(RunningError), all_logs))
              /\ stage' = "Failed"
              /\ pc' = "done"
              /\ UNCHANGED <<all_logs, trail, i, logs>>
         ELSE /\ checked' = IF running THEN "running" ELSE "clear"
              /\ all_logs' = all_logs \o CheckPassed
              /\ trail' = trail \o CheckPassed
              /\ stage' = "CleaningVersions"
              /\ pc' = AfterCheck
              /\ i' = 1
              /\ logs' = << >>
              /\ UNCHANGED result
    /\ UNCHANGED <<prog, params, localappdata, fs0, fs, delete_result, protect_result,
                   ret, sent, ops>>
    /\ UNCHANGED <<uvars, rx>>

\* the delete_versions command is called on its own
DeleteVersionsCommand ==
    /\ pc = "idle"
    /\ \E paths \in PathLists : params' = [NoParams EXCEPT !.versions_to_delete = paths]
    /\ prog' = "delete_versions"
    /\ pc' = "delete"
    /\ i' = 1
    /\ logs' = << >>
    /\ UNCHANGED <<localappdata, fs0, fs, all_logs, delete_result, protect_result, ret,
                   sent, result, checked, stage, ops, trail>>
    /\ UNCHANGED <<uvars, rx>>

\* Extend as an assignment: all_logs = r.logs
Extend_Replaces(v, l) == l

\* Vec::extend
Extend(v, l) == v \o l

\* Failed with the success flag of the callee not looked at
Failed_Never(r) == FALSE

\* the condition on which run_full_protection returns after a callee: !r.success
Failed(r) == ~r.success

\* what the caller of delete_versions does with the ProtectionResult r it returns;
\* next is where run_full_protection goes on when r is a success
DeleteVersionsReturns(r, next) ==
    /\ delete_result' = Some(r)
    /\ IF prog = "delete_versions"
       THEN /\ result' = Some(r)
            /\ pc' = "done"
            /\ UNCHANGED <<all_logs, stage>>
       ELSE /\ all_logs' = Extend(all_logs, r.logs)
            /\ IF Failed(r)
               THEN /\ result' = Some(ProtectionResult(FALSE, r.error, all_logs'))
                    /\ stage' = "Failed"
                    /\ pc' = "done"
               ELSE /\ pc' = next
                    /\ UNCHANGED <<result, stage>>

\* PathStr when the loop runs over the list from its end
PathStr_Reversed(paths, k) == paths[Len(paths) + 1 - k]

\* the element the i-th iteration of "for path_str in &paths" works on
PathStr(paths, k) == paths[k]

\* one iteration of the loop of delete_versions
DeleteVersion ==
    /\ pc = "delete"
    /\ prog \in {"run_full_protection", "delete_versions"}
    /\ i <= Len(params.versions_to_delete)
    /\ LET name == PathStr(params.versions_to_delete, i)
           unset == unset_readonly_recursive(VersionPath(name))
           pushed == Append(logs, <<"Deleting: ", name>>) \o Warning(unset)
       IN  /\ logs' = pushed
           /\ trail' = Append(trail, <<"Deleting: ", name>>) \o Warning(unset)
           /\ \E o \in RemoveDirAll(fs.versions[name]) :
                /\ fs' = [fs EXCEPT !.versions[name] = o.state]
                /\ ops' = ops \o <<Op("unset_readonly_recursive", VersionPath(name), unset.ok),
                                   Op("remove_dir_all", VersionPath(name), o.ok)>>
                /\ IF o.ok
                   THEN /\ i' = i + 1
                        /\ UNCHANGED <<pc, delete_result, result, all_logs, stage>>
                   ELSE /\ DeleteVersionsReturns(
                              ProtectionResult(FALSE, Some(DeleteError(name, IoError)), pushed),
                              "cache")
                        /\ UNCHANGED i
    /\ UNCHANGED <<prog, params, localappdata, fs0, protect_result, ret, sent, checked>>
    /\ UNCHANGED <<uvars, rx>>

\* DeletedEntry without the case of the empty list
DeletedEntry_Counted(n) == <<"[OK] Deleted ", n, " version(s)">>

\* the entry that closes the deletion stage, n paths having been given
DeletedEntry(n) ==
    IF n = 0 THEN <<"[OK] No versions to delete">>
    ELSE <<"[OK] Deleted ", n, " version(s)">>

\* the loop of delete_versions is over: its last entry and its return
DeleteVersionsDone ==
    /\ pc = "delete"
    /\ prog \in {"run_full_protection", "delete_versions"}
    /\ i > Len(params.versions_to_delete)
    /\ LET n == Len(params.versions_to_delete)
           entry == DeletedEntry(n)
       IN  /\ logs' = Append(logs, entry)
           /\ trail' = Append(trail, entry)
           /\ DeleteVersionsReturns(ProtectionResult(TRUE, None, logs'), "cache")
    /\ UNCHANGED <<prog, params, localappdata, fs0, fs, i, protect_result, ret, sent,
                   checked, ops>>
    /\ UNCHANGED <<uvars, rx>>

\* cleaner::clean_cache(): what it can return; cleaner.rs is not part of the sources
clean_cache ==
    { [success |-> ok, logs |-> l] :
        ok \in BOOLEAN, l \in {<< >>, <<<<"[OK] Cache cleaned">>>>} }

\* the cache stage of run_full_protection; the success flag of the result is not read
CleanCache ==
    /\ pc = "cache"
    /\ IF params.clean_cache
       THEN \E cache_result \in clean_cache :
              /\ all_logs' = Append(all_logs, <<"Cleaning cache directories...">>)
                                \o cache_result.logs
              /\ trail' = Append(trail, <<"Cleaning cache directories...">>)
                                \o cache_result.logs
              /\ ops' = Append(ops, Op("clean_cache", CachePath, cache_result.success))
       ELSE /\ all_logs' = Append(all_logs, <<"Skipping cache cleaning (disabled)">>)
            /\ trail' = Append(trail, <<"Skipping cache cleaning (disabled)">>)
            /\ UNCHANGED ops
    /\ pc' = "protect"
    /\ UNCHANGED <<prog, params, localappdata, fs0, fs, i, logs, delete_result,
                   protect_result, ret, sent, result, checked, stage>>
    /\ UNCHANGED <<uvars, rx>>

\* the apply_protection command is called on its own: both stages are on
ApplyProtectionCommand ==
    /\ pc = "idle"
    /\ prog' = "apply_protection"
    /\ params' = [NoParams EXCEPT !.lock_config = TRUE, !.create_blockers = TRUE]
    /\ pc' = "protect"
    /\ UNCHANGED <<localappdata, fs0, fs, i, all_logs, logs, delete_result, protect_result,
                   ret, sent, result, checked, stage, ops, trail>>
    /\ UNCHANGED <<uvars, rx>>

\* what the caller of apply_protection* does with the ProtectionResult r it returns
ProtectReturns(r) ==
    /\ protect_result' = Some(r)
    /\ pc' = "done"
    /\ IF prog = "apply_protection"
       THEN /\ result' = Some(r)
            /\ UNCHANGED <<all_logs, stage>>
       ELSE /\ all_logs' = Extend(all_logs, r.logs)
            /\ IF Failed(r)
               THEN /\ result' = Some(ProtectionResult(FALSE, r.error, all_logs'))
                    /\ stage' = "Failed"
               ELSE /\ result' = Some(ProtectionResult(TRUE, None, all_logs'))
                    /\ stage' = "Complete"

\* apply_protection*, from "Create blockers if enabled" to the call of
\* create_dummy_files; l and t are logs and trail as they are at that point
EnterBlockers(l, t) ==
    IF params.create_blockers
    THEN /\ logs' = Append(l, <<"Creating blockers...">>)
         /\ trail' = Append(t, <<"Creating blockers...">>)
         /\ pc' = "pinfo"
         /\ StageTo("CreatingBlockers")
         /\ UNCHANGED <<all_logs, protect_result, result>>
    ELSE /\ logs' = Append(l, <<"Skipping blocker creation (disabled)">>)
         /\ trail' = Append(t, <<"Skipping blocker creation (disabled)">>)
         /\ ProtectReturns(ProtectionResult(TRUE, None, logs'))

\* ProtectionEnabled with && for ||
ProtectionEnabled_Both(lock_config, create_blockers) == lock_config /\ create_blockers

\* the condition of run_full_protection under which apply_protection* is called
ProtectionEnabled(lock_config, create_blockers) == lock_config \/ create_blockers

\* EnvFailure with the error left out
EnvFailure_NoError == ProtectionResult(FALSE, None, << >>)

\* the result of apply_protection* when LOCALAPPDATA is not set
EnvFailure == ProtectionResult(FALSE, Some(EnvError), << >>)

\* run_full_protection from "Apply protection" on, and apply_protection* up to
\* the call of lock_configuration
ApplyProtection ==
    /\ pc = "protect"
    /\ IF prog = "run_full_protection"
          /\ ~ProtectionEnabled(params.lock_config, params.create_blockers)
       THEN /\ all_logs' = Append(all_logs, <<"Skipping protection (all options disabled)">>)
            /\ trail' = Append(trail, <<"Skipping protection (all options disabled)">>)
            /\ result' = Some(ProtectionResult(TRUE, None, all_logs'))
            /\ stage' = "Complete"
            /\ pc' = "done"
            /\ UNCHANGED <<logs, protect_result>>
       ELSE IF ~localappdata
       THEN /\ logs' = << >>
            /\ ProtectReturns(EnvFailure)
            /\ UNCHANGED trail
       ELSE IF params.lock_config
       THEN /\ logs' = <<<<"Modifying config...">>>>
            /\ trail' = Append(trail, <<"Modifying config...">>)
            /\ pc' = "lock"
            /\ StageTo("LockingConfig")
            /\ UNCHANGED <<all_logs, protect_result, result>>
       ELSE EnterBlockers(<<<<"Skipping config lock (disabled)">>>>,
                          Append(trail, <<"Skipping config lock (disabled)">>))
    /\ UNCHANGED <<prog, params, localappdata, fs0, fs, i, delete_result, ret, sent,
                   checked, ops>>
    /\ UNCHANGED <<uvars, rx>>

\* apply_protection*: the call of lock_configuration and what follows it
LockConfiguration ==
    /\ pc = "lock"
    /\ prog \in {"run_full_protection", "apply_protection"}
    /\ \E o \in lock_configuration(fs.config) :
         /\ fs' = [fs EXCEPT !.config = o.config]
         /\ ops' = ops \o o.ops
         /\ IF o.ret.ok
            THEN EnterBlockers(Append(logs, <<"[OK] Configuration locked">>),
                               Append(trail, <<"[OK] Configuration locked">>))
            ELSE /\ ProtectReturns(ProtectionResult(FALSE, Some(o.ret.err), logs))
                 /\ UNCHANGED <<logs, trail>>
    /\ UNCHANGED <<prog, params, localappdata, fs0, i, delete_result, ret, sent, checked>>
    /\ UNCHANGED <<uvars, rx>>

-----------------------------------------------------------------------------
(* create_dummy_files, the same in protector.rs and main.rs *)

\* AfterPinfo with the result dropped (let _ = for ?)
AfterPinfo_Continues(r) == "download"

\* where create_dummy_files goes on the result r of create_readonly(&pinfo)?
AfterPinfo(r) == IF r.ok THEN "download" ELSE "blockers_ret"

\* create_dummy_files: the ProductInfo.xml placeholder
CreatePinfo ==
    /\ pc = "pinfo"
    /\ \E o \in create_readonly(PinfoPath, fs.pinfo) :
         /\ fs' = [fs EXCEPT !.pinfo = o.st]
         /\ ops' = ops \o o.ops
         /\ pc' = AfterPinfo(o.ret)
         /\ ret' = IF o.ret.ok THEN ret ELSE Some(o.ret)
    /\ UNCHANGED <<prog, params, localappdata, fs0, i, all_logs, logs, delete_result,
                   protect_result, sent, result, checked, stage, trail>>
    /\ UNCHANGED <<uvars, rx>>

\* create_dummy_files: fs::create_dir_all of User Data\Download
CreateDownloadDir ==
    /\ pc = "download"
    /\ \E ok \in BOOLEAN :
         /\ ops' = Append(ops, Op("create_dir_all", DownloadPath, ok))
         /\ IF ok
            THEN /\ fs' = [fs EXCEPT !.download = TRUE]
                 /\ pc' = "update_exe"
                 /\ UNCHANGED ret
            ELSE /\ pc' = "blockers_ret"
                 /\ ret' = Some(Err(<<IoError>>))
                 /\ UNCHANGED fs
    /\ UNCHANGED <<prog, params, localappdata, fs0, i, all_logs, logs, delete_result,
                   protect_result, sent, result, checked, stage, trail>>
    /\ UNCHANGED <<uvars, rx>>

\* create_dummy_files: the update.exe placeholder, and the return
CreateUpdateExe ==
    /\ pc = "update_exe"
    /\ \E o \in create_readonly(UpdateExePath, fs.update_exe) :
         /\ fs' = [fs EXCEPT !.update_exe = o.st]
         /\ ops' = ops \o o.ops
         /\ ret' = Some(o.ret)
    /\ pc' = "blockers_ret"
    /\ UNCHANGED <<prog, params, localappdata, fs0, i, all_logs, logs, delete_result,
                   protect_result, sent, result, checked, stage, trail>>
    /\ UNCHANGED <<uvars, rx>>

\* apply_protection*: what follows the return of create_dummy_files
BlockersReturn ==
    /\ pc = "blockers_ret"
    /\ prog \in {"run_full_protection", "apply_protection"}
    /\ IF Unwrap(ret).ok
       THEN /\ logs' = Append(logs, <<"[OK] Update blockers created">>)
            /\ trail' = Append(trail, <<"[OK] Update blockers created">>)
            /\ ProtectReturns(ProtectionResult(TRUE, None, logs'))
       ELSE /\ ProtectReturns(ProtectionResult(FALSE, Some(Unwrap(ret).err), logs))
            /\ UNCHANGED <<logs, trail>>
    /\ UNCHANGED <<prog, params, localappdata, fs0, fs, i, delete_result, ret, sent,
                   checked, ops>>
    /\ UNCHANGED <<uvars, rx>>

-----------------------------------------------------------------------------
(* main.rs: the wizard starts run_fix_sequence on a worker thread *)

\* position of a directory name in the scan order
IndexOf(name) == CHOOSE k \in 1..Len(VersionNames) : VersionNames[k] = name

\* the lists scan_versions can have returned: directory names in ascending order
ScannedLists ==
    { l \in SeqsUpTo(Versions, NumVersions) :
        \A k \in 1..(Len(l) - 1) : IndexOf(l[k]) < IndexOf(l[k + 1]) }

\* versions_to_delete with the selected entry marked as well
VersionsToDelete_All(available_versions, selected_version_idx, idx) == available_versions

\* versions_to_delete with only the entries after the selected one marked
VersionsToDelete_Newer(available_versions, selected_version_idx, idx) ==
    IF IsSome(selected_version_idx)
    THEN SubSeq(available_versions, Unwrap(selected_version_idx) + 2, Len(available_versions))
    ELSE << >>

\* versions_to_delete of process_messages: every entry whose index is not the
\* selected one (indices count from 0)
RECURSIVE VersionsToDelete(_, _, _)
VersionsToDelete(available_versions, selected_version_idx, idx) ==
    IF idx >= Len(available_versions) THEN << >>
    ELSE (IF Some(idx) # selected_version_idx
          THEN <<available_versions[idx + 1]>> ELSE << >>)
         \o VersionsToDelete(available_versions, selected_version_idx, idx + 1)

\* selected_version of process_messages: Vec::get of the selected index
SelectedVersion(available_versions, selected_version_idx) ==
    IF IsSome(selected_version_idx) /\ Unwrap(selected_version_idx) < Len(available_versions)
    THEN Some(available_versions[Unwrap(selected_version_idx) + 1])
    ELSE None

Send(msgs) == sent' = sent \o msgs /\ rx' = rx \o msgs

\* the texts of the LogMessages among msgs
RECURSIVE Texts(_)
Texts(msgs) ==
    IF msgs = << >> THEN << >>
    ELSE (IF Head(msgs).type = "LogMessage" THEN <<Head(msgs).text>> ELSE << >>)
         \o Texts(Tail(msgs))

\* "Start fix" of process_messages, and run_fix_sequence up to its first sleep;
\* the button is enabled only with a selection, which a non-empty list keeps in range
RunFixSequence ==
    /\ pc = "idle"
    /\ \E capcut_path \in {None, Some(<<"Apps">>)},
          available_versions \in ScannedLists,
          selected_version_idx \in {Some(k) : k \in 0..(NumVersions - 1)} :
         /\ capcut_path = None => available_versions = << >>
         /\ available_versions # << >> =>
                Unwrap(selected_version_idx) < Len(available_versions)
         /\ params' = [NoParams EXCEPT
                !.capcut_path = capcut_path,
                !.versions_to_delete =
                    VersionsToDelete(available_versions, selected_version_idx, 0),
                !.selected_version =
                    SelectedVersion(available_versions, selected_version_idx),
                !.lock_config = TRUE, !.create_blockers = TRUE]
    /\ prog' = "run_fix_sequence"
    /\ Send(<<StepUpdate("Scanning"), LogMessage(<<">> Checking system state...">>)>>)
    /\ trail' = <<<<">> Checking system state...">>>>
    /\ stage' = "CheckingProcess"
    /\ pc' = "fix_check"
    /\ UNCHANGED <<localappdata, fs0, fs, i, all_logs, logs, delete_result, protect_result,
                   ret, result, checked, ops>>
    /\ UNCHANGED uvars

\* run_fix_sequence: the process check, the path, the start of step 2
FixCheck ==
    /\ pc = "fix_check"
    /\ \E running \in BOOLEAN :
         LET ok == LogMessage(<<"[OK] No running instances">>)
             keeping == IF IsSome(params.selected_version)
                        THEN <<LogMessage(<<">> Keeping version: ",
                                            Unwrap(params.selected_version)>>)>>
                        ELSE << >>
             msgs == IF running THEN <<FixComplete(Err(RunningError))>>
                     ELSE IF params.capcut_path = None
                     THEN <<ok, FixComplete(Err(PathError))>>
                     ELSE <<ok, StepUpdate("CleaningVersions")>> \o keeping
         IN  /\ checked' = IF running THEN "running" ELSE "clear"
             /\ Send(msgs)
             /\ trail' = trail \o Texts(msgs)
             /\ IF running \/ params.capcut_path = None
                THEN stage' = "Failed" /\ pc' = "done"
                ELSE stage' = "CleaningVersions" /\ pc' = "fix_delete"
    /\ i' = 1
    /\ UNCHANGED <<prog, params, localappdata, fs0, fs, all_logs, logs, delete_result,
                   protect_result, ret, result, ops>>
    /\ UNCHANGED uvars

\* run_fix_sequence: one iteration of the loop over versions_to_delete
FixDeleteVersion ==
    /\ pc = "fix_delete"
    /\ i <= Len(params.versions_to_delete)
    /\ LET name == PathStr(params.versions_to_delete, i)
           unset == unset_readonly_recursive(VersionPath(name))
           deleting == <<LogMessage(<<">> Deleting: ", name>>)>>
                       \o [k \in 1..Len(Warning(unset)) |-> LogMessage(Warning(unset)[k])]
       IN  \E o \in RemoveDirAll(fs.versions[name]) :
             /\ fs' = [fs EXCEPT !.versions[name] = o.state]
             /\ ops' = ops \o <<Op("unset_readonly_recursive", VersionPath(name), unset.ok),
                                Op("remove_dir_all", VersionPath(name), o.ok)>>
             /\ trail' = trail \o Texts(deleting)
             /\ IF o.ok
                THEN /\ Send(deleting)
                     /\ i' = i + 1
                     /\ UNCHANGED <<pc, stage>>
                ELSE /\ Send(Append(deleting, FixComplete(Err(DeleteError(name, IoError)))))
                     /\ stage' = "Failed"
                     /\ pc' = "done"
                     /\ UNCHANGED i
    /\ UNCHANGED <<prog, params, localappdata, fs0, all_logs, logs, delete_result,
                   protect_result, ret, result, checked>>
    /\ UNCHANGED uvars

\* run_fix_sequence: the end of step 2 and the start of step 3
FixDeleteDone ==
    /\ pc = "fix_delete"
    /\ i > Len(params.versions_to_delete)
    /\ LET n == Len(params.versions_to_delete)
           msgs == <<LogMessage(DeletedEntry(n)),
                     StepUpdate("LockingConfig"),
                     LogMessage(<<">> Modifying config...">>)>>
       IN  /\ Send(msgs)
           /\ trail' = trail \o Texts(msgs)
    /\ stage' = "LockingConfig"
    /\ pc' = "fix_lock"
    /\ UNCHANGED <<prog, params, localappdata, fs0, fs, i, all_logs, logs, delete_result,
                   protect_result, ret, result, checked, ops>>
    /\ UNCHANGED uvars

\* run_fix_sequence: lock_configuration, and the start of step 4
FixLockConfiguration ==
    /\ pc = "fix_lock"
    /\ \E o \in lock_configuration(fs.config) :
         LET msgs == IF o.ret.ok
                     THEN <<LogMessage(<<"[OK] Configuration locked">>),
                            StepUpdate("CreatingBlockers"),
                            LogMessage(<<">> Creating blockers...">>)>>
                     ELSE <<FixComplete(o.ret)>>
         IN  /\ fs' = [fs EXCEPT !.config = o.config]
             /\ ops' = ops \o o.ops
             /\ Send(msgs)
             /\ trail' = trail \o Texts(msgs)
             /\ IF o.ret.ok
                THEN stage' = "CreatingBlockers" /\ pc' = "pinfo"
                ELSE stage' = "Failed" /\ pc' = "done"
    /\ UNCHANGED <<prog, params, localappdata, fs0, i, all_logs, logs, delete_result,
                   protect_result, ret, result, checked>>
    /\ UNCHANGED uvars

\* run_fix_sequence: what follows the return of create_dummy_files
FixBlockersReturn ==
    /\ pc = "blockers_ret"
    /\ prog = "run_fix_sequence"
    /\ LET msgs == IF Unwrap(ret).ok
                   THEN <<LogMessage(<<"[OK] Update blockers created">>), FixComplete(Ok)>>
                   ELSE <<FixComplete(Unwrap(ret))>>
       IN  /\ Send(msgs)
           /\ trail' = trail \o Texts(msgs)
    /\ stage' = IF Unwrap(ret).ok THEN "Complete" ELSE "Failed"
    /\ pc' = "done"
    /\ UNCHANGED <<prog, params, localappdata, fs0, fs, i, all_logs, logs, delete_result,
                   protect_result, ret, result, checked, ops>>
    /\ UNCHANGED uvars

-----------------------------------------------------------------------------
(* Specification *)

Next ==
    \/ RunFullProtection
    \/ CheckProcess
    \/ DeleteVersionsCommand
    \/ DeleteVersion
    \/ DeleteVersionsDone
    \/ CleanCache
    \/ ApplyProtectionCommand
    \/ ApplyProtection
    \/ LockConfiguration
    \/ CreatePinfo
    \/ CreateDownloadDir
    \/ CreateUpdateExe
    \/ BlockersReturn
    \/ RunFixSequence
    \/ FixCheck
    \/ FixDeleteVersion
    \/ FixDeleteDone
    \/ FixLockConfiguration
    \/ FixBlockersReturn

Spec == Init /\ [][Next]_vars

-----------------------------------------------------------------------------
(* Vocabulary of the properties *)

Done == pc = "done"
Orchestrated == prog \in Orchestrators
Tauri == prog \in {"run_full_protection", "delete_versions", "apply_protection"}
Paths == params.versions_to_delete

\* the run reported success: FixComplete(Ok) was sent, or success = true returned
Succeeded ==
    IF prog = "run_fix_sequence"
    THEN sent # << >> /\ sent[Len(sent)] = FixComplete(Ok)
    ELSE IsSome(result) /\ Unwrap(result).success

\* the run reported failure: FixComplete(Err) was sent, or success = false returned
Halted ==
    IF prog = "run_fix_sequence"
    THEN /\ sent # << >>
         /\ sent[Len(sent)].type = "FixComplete"
         /\ ~sent[Len(sent)].res.ok
    ELSE IsSome(result) /\ ~Unwrap(result).success

\* the install path is unknown to the run
EnvAbsent ==
    IF prog = "run_fix_sequence" THEN params.capcut_path = None ELSE ~localappdata

IsVersionOp(o) == Len(o.path) = 2 /\ o.path[1] = "Apps" /\ o.path[2] \in Versions
IsCacheOp(o) == o.path = CachePath
IsConfigOp(o) == o.path = ConfigPath
IsBlockerOp(o) == o.path \in {PinfoPath, DownloadPath, UpdateExePath}

\* the stage an operation belongs to
OpRank(o) ==
    IF IsVersionOp(o) THEN 1
    ELSE IF IsCacheOp(o) THEN 2
    ELSE IF IsConfigOp(o) THEN 3
    ELSE 4

StageRank(s) ==
    CASE s = "Idle" -> 0
      [] s = "CheckingProcess" -> 1
      [] s = "CleaningVersions" -> 2
      [] s = "LockingConfig" -> 3
      [] s = "CreatingBlockers" -> 4
      [] OTHER -> 5

\* the calls whose error ends a run (the cache stage's result is not read, and
\* unset_readonly_recursive never returns one)
FailedAt(k) == ~ops[k].ok /\ ~IsCacheOp(ops[k])

BlockersUntouched ==
    /\ fs.pinfo = fs0.pinfo
    /\ fs.download = fs0.download
    /\ fs.update_exe = fs0.update_exe

\* configure.ini holds the line last_version=1.0.0.0
ConfigLocked ==
    /\ IsSome(fs.config)
    /\ \E k \in 1..Len(Lines(Unwrap(fs.config))) : Lines(Unwrap(fs.config))[k] = LOCKED_LINE

\* create_readonly(path) got as far as returning Ok
Installed(path) == \E k \in 1..Len(ops) : ops[k] = Op("attrib", path, TRUE)

-----------------------------------------------------------------------------
(* Properties *)

\* C1: when the process check of run_full_protection or run_fix_sequence sees the
\* application running, the run is over and Failed with the "still running"
\* error, the filesystem is as it was before the run and no operation on it was
\* attempted, and the log is the single "Checking system state..." entry.
C1_RunningHaltsUntouched ==
    (Orchestrated /\ checked = "running") =>
        /\ Done
        /\ stage = "Failed"
        /\ fs = fs0
        /\ ops = << >>
        /\ IF prog = "run_fix_sequence"
           THEN sent = <<StepUpdate("Scanning"),
                         LogMessage(<<">> Checking system state...">>),
                         FixComplete(Err(RunningError))>>
           ELSE result = Some(ProtectionResult(FALSE, Some(RunningError),
                                               <<<<"Checking system state...">>>>))

C1_Witness ==
    /\ prog = "run_full_protection"
    /\ checked = "running"
    /\ Paths # << >>
    /\ Done

\* the operations of a run are in stage order (deletions, then cache, then the
\* config write, then the blockers) after a passed process check; a config
\* write is attempted only when every targeted directory is deleted, a blocker
\* operation only after the config write succeeded (when that stage is on)
C2_OpsInOrder ==
    Orchestrated =>
        /\ ops # << >> => checked = "clear"
        /\ \A a, b \in 1..Len(ops) : a < b => OpRank(ops[a]) <= OpRank(ops[b])
        /\ (\E k \in 1..Len(ops) : OpRank(ops[k]) >= 3) =>
              /\ \A j \in 1..Len(Paths) : fs.versions[Paths[j]] = "absent"
              /\ \A j \in 1..Len(Paths) :
                    ops[2 * j] = Op("remove_dir_all", VersionPath(Paths[j]), TRUE)
        /\ ((\E k \in 1..Len(ops) : IsBlockerOp(ops[k])) /\ params.lock_config) =>
              \E k \in 1..Len(ops) :
                 /\ ops[k] = Op("write", ConfigPath, TRUE)
                 /\ \A m \in 1..Len(ops) : IsBlockerOp(ops[m]) => k < m

\* C2: within a run the operations are in stage order, no config write is
\* attempted before every targeted deletion is done and no blocker operation
\* before the config write is done, and the stage of the orchestrator never
\* goes back to an earlier one.
C2_StagesInOrder ==
    []C2_OpsInOrder /\ [][StageRank(stage') >= StageRank(stage)]_vars

C2_Witness ==
    /\ prog = "run_full_protection"
    /\ stage = "Complete"
    /\ Len(Paths) = 2
    /\ \E k \in 1..Len(ops) : IsConfigOp(ops[k])
    /\ \E k \in 1..Len(ops) : ops[k].path = UpdateExePath

\* C3: an error of a targeted deletion, of the config write or of a call made by
\* create_dummy_files is the last operation of the run, and the run then ends
\* Failed: after a deletion error configure.ini and the blocker paths are as
\* before the run, after a config write error the blocker paths are.
C3_FailStop ==
    Orchestrated =>
        \A k \in 1..Len(ops) :
            FailedAt(k) =>
                /\ k = Len(ops)
                /\ pc \in {"blockers_ret", "done"}
                /\ Done => stage = "Failed" /\ Halted
                /\ IsVersionOp(ops[k]) => fs.config = fs0.config /\ BlockersUntouched
                /\ IsConfigOp(ops[k]) => BlockersUntouched

C3_Witness ==
    /\ prog = "run_full_protection"
    /\ Done
    /\ ops # << >>
    /\ ops[Len(ops)] = Op("write", ConfigPath, FALSE)
    /\ Paths # << >>

\* C4: when deleting the i-th directory of versions_to_delete fails, the failed
\* call is the last operation, the directories before it in the list are
\* deleted, those after it (that are not also before it) are as before the run,
\* and the run is over.
C4_NoRollback ==
    (\E k \in 1..Len(ops) : IsVersionOp(ops[k]) /\ ~ops[k].ok) =>
        /\ Done
        /\ Orchestrated => stage = "Failed"
        /\ Halted
        /\ i \in 1..Len(Paths)
        /\ Len(ops) = 2 * i
        /\ ops[Len(ops)] = Op("remove_dir_all", VersionPath(Paths[i]), FALSE)
        /\ \A j \in 1..(i - 1) : fs.versions[Paths[j]] = "absent"
        /\ \A j \in (i + 1)..Len(Paths) :
              (\A m \in 1..i : Paths[m] # Paths[j]) =>
                  fs.versions[Paths[j]] = fs0.versions[Paths[j]]

C4_Witness ==
    /\ prog = "delete_versions"
    /\ Len(Paths) = 2
    /\ Paths[1] # Paths[2]
    /\ i = 2
    /\ ops # << >>
    /\ ~ops[Len(ops)].ok
    /\ fs.versions[Paths[1]] = "absent"
    /\ fs.versions[Paths[2]] # "absent"

\* C5: a run reports success only if its process check saw nothing running,
\* every directory of versions_to_delete is deleted, configure.ini holds the
\* last_version=1.0.0.0 line when the config stage is on, and both placeholders
\* were installed as empty files under an existing Download directory when the
\* blocker stage is on; a run in which a call of a placeholder install returned
\* an error ends Failed.
C5_CompleteOnlyIfAllDone ==
    Orchestrated =>
        /\ stage = "Complete" <=> Succeeded
        /\ Succeeded =>
              /\ Done
              /\ checked = "clear"
              /\ \A j \in 1..Len(Paths) : fs.versions[Paths[j]] = "absent"
              /\ params.lock_config =>
                    /\ ConfigLocked
                    /\ \E k \in 1..Len(ops) : ops[k] = Op("write", ConfigPath, TRUE)
              /\ params.create_blockers =>
                    /\ Installed(PinfoPath) /\ Installed(UpdateExePath)
                    /\ fs.pinfo.kind = "file" /\ fs.pinfo.empty
                    /\ fs.update_exe.kind = "file" /\ fs.update_exe.empty
                    /\ fs.download
        /\ (Done /\ \E k \in 1..Len(ops) :
                       ~ops[k].ok /\ ops[k].path \in {PinfoPath, UpdateExePath}) =>
              stage = "Failed" /\ Halted

C5_Witness ==
    /\ prog = "run_fix_sequence"
    /\ Succeeded
    /\ Paths # << >>
    /\ fs0.pinfo = Directory
    /\ fs0.config = Some(ConfigOld)

\* C6: every ProtectionResult returned by delete_versions, apply_protection,
\* apply_protection_with_options and run_full_protection carries an error
\* exactly when its success flag is false.
C6_ErrorIffFailure ==
    \A r \in {result, delete_result, protect_result} :
        IsSome(r) => (IsSome(Unwrap(r).error) <=> ~Unwrap(r).success)

C6_Witness ==
    /\ prog = "run_full_protection"
    /\ IsSome(delete_result) /\ Unwrap(delete_result).success
    /\ IsSome(protect_result) /\ ~Unwrap(protect_result).success
    /\ IsSome(result) /\ ~Unwrap(result).success

\* C7: in the Tauri commands the entries pushed so far, in the order they were
\* pushed, are all_logs followed by the logs of the callee that is running, and
\* the logs of the result the command returns, on success and on failure.
C7_LogIntact ==
    Tauri =>
        /\ pc \in {"check", "cache", "protect"} => all_logs = trail
        /\ pc \in {"delete", "lock", "pinfo", "download", "update_exe", "blockers_ret"} =>
              all_logs \o logs = trail
        /\ Done => IsSome(result) /\ Unwrap(result).logs = trail

C7_Witness ==
    /\ prog = "run_full_protection"
    /\ Done
    /\ ~Unwrap(result).success
    /\ IsSome(protect_result)
    /\ Len(Unwrap(protect_result).logs) >= 3
    /\ Len(Unwrap(result).logs) >= 8

\* C8 as stated: every step that changes the stage of the orchestrator, a step
\* into Failed included, pushes at least one log entry.
C8_EveryTransitionLogs ==
    [][(Orchestrated' /\ stage' # stage) => Len(trail') > Len(trail)]_vars

\* C8 as amended: every step that changes the stage of the orchestrator to a
\* stage other than Failed pushes at least one log entry.
C8_NonFailingTransitionLogs ==
    [][(Orchestrated' /\ stage' # stage /\ stage' # "Failed") =>
            Len(trail') > Len(trail)]_vars

C8_Witness ==
    /\ prog = "run_fix_sequence"
    /\ stage = "Complete"
    /\ Len(trail) >= 7

\* C9: in run_full_protection a stage that is off attempts no operation and
\* leaves its files as they were; a run that succeeded ran every stage that is
\* on; and a run whose process check passed and in which no call returned an
\* error succeeds for every combination of the flags (apply_protection* needs
\* LOCALAPPDATA when one of its two stages is on).
C9_FlagsIndependent ==
    prog = "run_full_protection" =>
        /\ ~params.clean_cache => \A k \in 1..Len(ops) : ~IsCacheOp(ops[k])
        /\ ~params.lock_config =>
              /\ \A k \in 1..Len(ops) : ~IsConfigOp(ops[k])
              /\ fs.config = fs0.config
        /\ ~params.create_blockers =>
              /\ \A k \in 1..Len(ops) : ~IsBlockerOp(ops[k])
              /\ BlockersUntouched
        /\ Succeeded =>
              /\ params.clean_cache => \E k \in 1..Len(ops) : IsCacheOp(ops[k])
              /\ params.lock_config =>
                    \E k \in 1..Len(ops) : ops[k] = Op("write", ConfigPath, TRUE)
              /\ params.create_blockers =>
                    /\ Installed(PinfoPath) /\ Installed(UpdateExePath)
                    /\ \E k \in 1..Len(ops) : ops[k] = Op("create_dir_all", DownloadPath, TRUE)
        /\ ( /\ Done
             /\ checked = "clear"
             /\ \A k \in 1..Len(ops) : ~FailedAt(k)
             /\ localappdata \/ ~(params.lock_config \/ params.create_blockers) ) =>
              Succeeded

C9_Witness ==
    /\ prog = "run_full_protection"
    /\ Succeeded
    /\ ~params.clean_cache /\ params.lock_config /\ ~params.create_blockers
    /\ Paths # << >>

\* C10: a run that does not know the install path (LOCALAPPDATA not set, no
\* capcut_path) has attempted no operation on the filesystem, and ends Failed.
C10_EnvAbsentNoSideEffect ==
    (Orchestrated /\ EnvAbsent) =>
        /\ ops = << >>
        /\ Done => Halted

-----------------------------------------------------------------------------
(* Version scans and clean_versions on their own *)

\* a filesystem the scans do not look at
BareFs ==
    [versions |-> [v \in Versions |-> "present"], config |-> None,
     pinfo |-> Absent, download |-> FALSE, update_exe |-> Absent]

\* what a call on the Apps directory returned, and the directory it was given
Returned(call, list, r) == Some([call |-> call, of |-> apps, list |-> list, ret |-> r])

InitScan ==
    /\ AtRest
    /\ localappdata \in BOOLEAN
    /\ fs = BareFs
    /\ fs0 = fs
    /\ apps \in AppsStates
    /\ scanned = None
    /\ doc = NewDoc(None)
    /\ app = NewApp
    /\ rx = << >>
    /\ prechecks = 0
    /\ requests = NoRequests

\* main.rs: scan_versions(apps_path)
ScanVersions ==
    /\ \E rd \in ReadDir(apps) :
         scanned' = Returned("main::scan_versions", scan_versions(apps, rd), Ok)
    /\ UNCHANGED <<rvars, apps, doc, app, prechecks, requests, rx>>

\* scanner.rs: the scan_versions command
ScanVersionsCommand ==
    /\ \E rd \in ReadDir(apps) :
         scanned' = Returned("scanner::scan_versions",
                             scan_versions_command(localappdata, apps, rd), Ok)
    /\ UNCHANGED <<rvars, apps, doc, app, prechecks, requests, rx>>

\* main.rs: clean_versions(apps_path)
CleanVersions ==
    /\ \E rd \in ReadDir(apps) : \E o \in clean_versions(apps, rd) :
         /\ apps' = o.apps
         /\ scanned' = Returned("main::clean_versions", << >>, o.ret)
    /\ UNCHANGED <<rvars, doc, app, prechecks, requests, rx>>

NextScan ==
    \/ ScanVersions
    \/ ScanVersionsCommand
    \/ CleanVersions

SpecScan == InitScan /\ [][NextScan]_vars

(* Vocabulary of the scan properties *)

\* a version name as the numbers between its dots
VersionNumber(name) ==
    CASE name = "1.5.0" -> <<1, 5, 0>>
      [] name = "2.9.0" -> <<2, 9, 0>>
      [] name = "3.2.0" -> <<3, 2, 0>>
      [] name = "10.0.0" -> <<10, 0, 0>>

\* a comes before b in natural order: the first differing number decides
Precedes(a, b) ==
    LET x == VersionNumber(a)
        y == VersionNumber(b)
    IN  \/ x[1] < y[1]
        \/ x[1] = y[1] /\ x[2] < y[2]
        \/ x[1] = y[1] /\ x[2] = y[2] /\ x[3] < y[3]

Scans == {"main::scan_versions", "scanner::scan_versions"}
IsScan == IsSome(scanned) /\ Unwrap(scanned).call \in Scans
IsClean == IsSome(scanned) /\ Unwrap(scanned).call = "main::clean_versions"

\* the install root the call was given: none for the command without LOCALAPPDATA
RootOf(r) ==
    IF r.call = "scanner::scan_versions" /\ ~localappdata THEN "missing" ELSE r.of.root

\* the immediate subdirectories of the directory the call was given, and the
\* ones among them whose entry can be read
AllSubdirectories(r) == {n \in Names : r.of.entries[n] \in {"dir", "locked"}}
Subdirectories(r) == {n \in Names : r.of.entries[n] = "dir"}

\* C11: the list every version scan returns is ascending in natural order
\* (2.9.0 before 3.2.0 before 10.0.0)
C11_ScansNaturallySorted ==
    IsScan =>
        LET list == Unwrap(scanned).list
        IN  \A j, k \in 1..Len(list) : j < k => Precedes(list[j], list[k])

\* C12 as stated: a missing or unreadable root gives the empty list and no error,
\* an existing root gives one entry per immediate subdirectory and no other
C12_ScanListsEverySubdirectory ==
    IsScan =>
        LET r == Unwrap(scanned)
        IN  /\ r.ret = Ok
            /\ RootOf(r) \in {"missing", "unreadable"} => r.list = << >>
            /\ RootOf(r) # "missing" =>
                   /\ Range(r.list) = AllSubdirectories(r)
                   /\ Len(r.list) = Cardinality(AllSubdirectories(r))

\* C12: a missing or unreadable root gives the empty list and no error; a root
\* that can be read gives one entry per immediate subdirectory whose entry can
\* be read, and none for a non-directory
C12_ScanListsReadableSubdirectories ==
    IsScan =>
        LET r == Unwrap(scanned)
        IN  /\ r.ret = Ok
            /\ RootOf(r) \in {"missing", "unreadable"} => r.list = << >>
            /\ RootOf(r) = "readable" =>
                   /\ Range(r.list) = Subdirectories(r)
                   /\ Len(r.list) = Cardinality(Subdirectories(r))

C12_Witness ==
    /\ IsScan
    /\ RootOf(Unwrap(scanned)) = "readable"
    /\ \E n \in Names : Unwrap(scanned).of.entries[n] = "file"
    /\ \E n \in Names : Unwrap(scanned).of.entries[n] = "locked"
    /\ Unwrap(scanned).list # << >>

\* C13: clean_versions given n >= 2 directories deletes the last one in natural
\* order and touches no other; given n <= 1 it deletes nothing
C13_HeuristicDeletesLast ==
    IsClean =>
        LET r == Unwrap(scanned)
            dirs == Subdirectories(r)
            n == IF r.of.root = "readable" THEN Cardinality(dirs) ELSE 0
        IN  /\ apps.root = r.of.root
            /\ n <= 1 => apps = r.of
            /\ n >= 2 =>
                   LET last == CHOOSE d \in dirs : \A e \in dirs \ {d} : Precedes(e, d)
                   IN  /\ \A e \in Names \ {last} : apps.entries[e] = r.of.entries[e]
                       /\ apps.entries[last] = IF r.ret.ok THEN "absent" ELSE "dir"

C13_Witness ==
    /\ IsClean
    /\ Unwrap(scanned).ret.ok
    /\ Cardinality(Subdirectories(Unwrap(scanned))) >= 3
    /\ Unwrap(scanned).of.entries["10.0.0"] = "dir"
    /\ apps.entries["10.0.0"] = "absent"
    /\ apps.entries["2.9.0"] = "dir"

-----------------------------------------------------------------------------
(* lock_configuration on its own, called again and again on one file *)

\* pieces a configure.ini is made of
MaxPieces == 3
\* calls of lock_configuration in succession
MaxCalls == 2

Pieces ==
    { <<"a", "\n">>,
      KEY \o <<"=", "5", "\n">>,
      <<" ">> \o KEY \o <<"\r", "\n">>,
      <<"\n">>,
      <<"b", "\r">>,
      KEY \o <<"=", "5">>,
      KEY \o <<"2", "=", "7", "\n">> }

RECURSIVE ConfigTexts(_)
ConfigTexts(n) ==
    IF n = 0 THEN {<< >>}
    ELSE ConfigTexts(n - 1) \cup {t \o p : t \in ConfigTexts(n - 1), p \in Pieces}

\* the states configure.ini can be in before the first call
ConfigInputs == {None} \cup {Some(t) : t \in ConfigTexts(MaxPieces)}

InitConfig ==
    /\ AtRest
    /\ localappdata = TRUE
    /\ fs = BareFs
    /\ fs0 = fs
    /\ apps = NoApps
    /\ scanned = None
    /\ doc \in {NewDoc(c) : c \in ConfigInputs}
    /\ app = NewApp
    /\ rx = << >>
    /\ prechecks = 0
    /\ requests = NoRequests

\* one call of lock_configuration: what it read, the lines it wrote, the file after
LockConfigurationCall ==
    /\ Len(doc.calls) < MaxCalls
    /\ \E content \in Contents(doc.file) : \E o \in lock_configuration(doc.file) :
         /\ o.ret.ok => o.config = Some(LockedContent(content))
         /\ doc' = [file |-> o.config,
                    calls |-> Append(doc.calls,
                        [before |-> doc.file, content |-> content,
                         new_lines |-> new_lines(content),
                         ret |-> o.ret, after |-> o.config])]
    /\ UNCHANGED <<rvars, apps, scanned, app, prechecks, requests, rx>>

NextConfig == LockConfigurationCall

SpecConfig == InitConfig /\ [][NextConfig]_vars

(* Vocabulary of the rewrite properties *)

Calls == {doc.calls[k] : k \in 1..Len(doc.calls)}

\* the line the rewrite puts in place of a matching line
LockedLine ==
    <<"l", "a", "s", "t", "_", "v", "e", "r", "s", "i", "o", "n",
      "=", "1", ".", "0", ".", "0", ".", "0">>

\* the line's trimmed form starts with the key
Matching(line) == StartsWith(Trim(line), KEY)

\* how many lines of ls match the key, how many are the locked line
CountMatching(ls) == Cardinality({k \in 1..Len(ls) : Matching(ls[k])})
CountLocked(ls) == Cardinality({k \in 1..Len(ls) : ls[k] = LockedLine})

\* the call read the file as it was
ReadAll(c) == c.content = IF IsSome(c.before) THEN Unwrap(c.before) ELSE << >>

\* C16: a second call in succession leaves the file as the first call left it,
\* and the number of last_version lines does not grow
C16_RewriteIdempotent ==
    \A k \in 1..(Len(doc.calls) - 1) :
        LET first == doc.calls[k]
            second == doc.calls[k + 1]
        IN  (first.ret.ok /\ second.ret.ok /\ ReadAll(first) /\ ReadAll(second)) =>
                /\ second.after = first.after
                /\ CountMatching(second.new_lines) <= CountMatching(first.new_lines)

\* C17: every line that does not match is written as it was read and where it
\* was, and a matching line is replaced where it was
C17_UnrelatedLinesKept ==
    \A c \in Calls :
        LET ls == Lines(c.content)
        IN  /\ Len(c.new_lines) >= Len(ls)
            /\ \A k \in 1..Len(ls) :
                   c.new_lines[k] = IF Matching(ls[k]) THEN LockedLine ELSE ls[k]

C17_Witness ==
    \E c \in Calls :
        LET ls == Lines(c.content)
        IN  /\ c.ret.ok
            /\ Len(ls) = 3
            /\ ~Matching(ls[1]) /\ Matching(ls[2]) /\ ~Matching(ls[3])
            /\ ls[1] # ls[3]
            /\ ls[2] # LockedLine

\* C18: the locked line is appended, once and after every line read, exactly
\* when no line read matches; an absent or empty file has no line
C18_AppendIffNoMatch ==
    \A c \in Calls :
        LET ls == Lines(c.content)
        IN  IF CountMatching(ls) = 0
            THEN c.new_lines = ls \o <<LockedLine>>
            ELSE Len(c.new_lines) = Len(ls)

C18_Witness ==
    \E c \in Calls :
        /\ c.ret.ok
        /\ Len(Lines(c.content)) >= 2
        /\ CountMatching(Lines(c.content)) = 0
        /\ c.after = Some(c.content \o <<"\n">> \o LockedLine)

\* C19 as stated: after a successful rewrite the file has exactly one line
\* last_version=1.0.0.0
C19_ExactlyOneLockedLine ==
    \A c \in Calls :
        c.ret.ok => CountLocked(Lines(Unwrap(c.after))) = 1

\* C19: after a successful rewrite the file has one line last_version=1.0.0.0
\* for each matching line read, and one when no line read matches
C19_LockedLinePerMatch ==
    \A c \in Calls :
        c.ret.ok =>
            LET matching == CountMatching(Lines(c.content))
            IN  CountLocked(Lines(Unwrap(c.after))) =
                    IF matching = 0 THEN 1 ELSE matching

C19_Witness ==
    \E c \in Calls :
        /\ c.ret.ok
        /\ CountMatching(Lines(c.content)) = 2
        /\ CountLocked(Lines(Unwrap(c.after))) = 2

\* C20: when several lines read match, each is replaced and none removed: as
\* many lines are written as were read, as many locked lines as lines matched
C20_EveryMatchReplaced ==
    \A c \in Calls :
        LET ls == Lines(c.content)
        IN  CountMatching(ls) >= 2 =>
                /\ Len(c.new_lines) = Len(ls)
                /\ CountLocked(c.new_lines) = CountMatching(ls)
                /\ \A k \in 1..Len(ls) : Matching(ls[k]) => c.new_lines[k] = LockedLine

C20_Witness ==
    \E c \in Calls :
        LET ls == Lines(c.content)
        IN  /\ c.ret.ok
            /\ Len(ls) = 3
            /\ CountMatching(ls) = 2
            /\ CountLocked(ls) = 0

\* the key of a key=value line: what stands before the first "=", trimmed
RECURSIVE BeforeEquals(_)
BeforeEquals(line) ==
    IF line = << >> \/ Head(line) = "=" THEN << >>
    ELSE <<Head(line)>> \o BeforeEquals(Tail(line))

KeyOf(line) == Trim(BeforeEquals(line))

\* C21: the rewrite writes no key but last_version: a line whose key is another
\* key is written as it was read
C21_OtherKeysKept ==
    \A c \in Calls :
        LET ls == Lines(c.content)
        IN  \A k \in 1..Len(ls) : KeyOf(ls[k]) # KEY => c.new_lines[k] = ls[k]

-----------------------------------------------------------------------------
(* main.rs: the wizard. One action is one call of update(): process_messages,
   then the screen rendered with at most one click in it *)

\* how often the wizard is made to start a pre-check, and a protection run
MaxChecks == 2
MaxRuns == 2

PreCheckResult(found, running, path, versions) ==
    [type |-> "PreCheckResult", found |-> found, running |-> running,
     path |-> path, versions |-> versions]

ErrorScreen(e) == [name |-> "Error", msg |-> e]

\* Receive with the selection set only when there is none yet
Receive_KeepsSelection(a, msg) ==
    CASE msg.type = "PreCheckResult" ->
            [a EXCEPT !.capcut_found = msg.found,
                      !.capcut_running = msg.running,
                      !.capcut_path = msg.path,
                      !.available_versions = msg.versions,
                      !.selected_version_idx =
                          IF msg.versions # << >> /\ @ = None THEN Some(0) ELSE @]
      [] msg.type = "StepUpdate" -> [a EXCEPT !.current_step = msg.step]
      [] msg.type = "LogMessage" -> [a EXCEPT !.action_log = Append(@, msg.text)]
      [] msg.type = "FixComplete" ->
            IF msg.res.ok
            THEN [a EXCEPT !.current_step = "Done", !.screen = Screen("Complete")]
            ELSE [a EXCEPT !.screen = [name |-> "Error", msg |-> msg.res.err]]

\* Receive with FixComplete taken for success whatever it carries
Receive_AlwaysComplete(a, msg) ==
    CASE msg.type = "PreCheckResult" ->
            [a EXCEPT !.capcut_found = msg.found,
                      !.capcut_running = msg.running,
                      !.capcut_path = msg.path,
                      !.available_versions = msg.versions,
                      !.selected_version_idx = IF msg.versions # << >> THEN Some(0) ELSE @]
      [] msg.type = "StepUpdate" -> [a EXCEPT !.current_step = msg.step]
      [] msg.type = "LogMessage" -> [a EXCEPT !.action_log = Append(@, msg.text)]
      [] msg.type = "FixComplete" ->
            [a EXCEPT !.current_step = "Done", !.screen = Screen("Complete")]

\* process_messages: the match on one received message
Receive(a, msg) ==
    CASE msg.type = "PreCheckResult" ->
            [a EXCEPT !.capcut_found = msg.found,
                      !.capcut_running = msg.running,
                      !.capcut_path = msg.path,
                      !.available_versions = msg.versions,
                      !.selected_version_idx = IF msg.versions # << >> THEN Some(0) ELSE @]
      [] msg.type = "StepUpdate" -> [a EXCEPT !.current_step = msg.step]
      [] msg.type = "LogMessage" -> [a EXCEPT !.action_log = Append(@, msg.text)]
      [] msg.type = "FixComplete" ->
            IF msg.res.ok
            THEN [a EXCEPT !.current_step = "Done", !.screen = Screen("Complete")]
            ELSE [a EXCEPT !.screen = ErrorScreen(msg.res.err)]

\* process_messages: while let Ok(msg) = self.rx.try_recv()
RECURSIVE Drain(_, _)
Drain(a, msgs) ==
    IF msgs = << >> THEN a ELSE Drain(Receive(a, Head(msgs)), Tail(msgs))

\* process_messages: "Start pre-check", the fields it sets
StartCheck(a) ==
    IF a.check_requested
    THEN [a EXCEPT !.check_requested = FALSE, !.screen = Screen("PreCheck")]
    ELSE a

\* StartFix without action_log.clear()
StartFix_KeepsLog(a) ==
    IF a.fix_requested
    THEN [a EXCEPT !.fix_requested = FALSE, !.screen = [name |-> "Running", msg |-> << >>],
                   !.current_step = "Scanning"]
    ELSE a

\* StartFix with the screen left as it is
StartFix_KeepsScreen(a) ==
    IF a.fix_requested
    THEN [a EXCEPT !.fix_requested = FALSE,
                   !.current_step = "Scanning", !.action_log = << >>]
    ELSE a

\* process_messages: "Start fix", the fields it sets
StartFix(a) ==
    IF a.fix_requested
    THEN [a EXCEPT !.fix_requested = FALSE, !.screen = Screen("Running"),
                   !.current_step = "Scanning", !.action_log = << >>]
    ELSE a

\* process_messages on the wizard a with msgs waiting in the channel
process_messages(a, msgs) == Drain(StartFix(StartCheck(a)), msgs)

\* what this call of update() renders
Shown == process_messages(app, rx)

\* "Start fix": the thread spawned on run_fix_sequence with the values captured
SpawnFix ==
    /\ prog' = "run_fix_sequence"
    /\ pc' = "fix_spawned"
    /\ params' = [NoParams EXCEPT
           !.capcut_path = app.capcut_path,
           !.versions_to_delete =
               VersionsToDelete(app.available_versions, app.selected_version_idx, 0),
           !.selected_version =
               SelectedVersion(app.available_versions, app.selected_version_idx),
           !.lock_config = TRUE, !.create_blockers = TRUE]
    /\ fs0' = fs
    /\ i' = 1
    /\ all_logs' = << >>
    /\ logs' = << >>
    /\ delete_result' = None
    /\ protect_result' = None
    /\ ret' = None
    /\ sent' = << >>
    /\ result' = None
    /\ checked' = "none"
    /\ stage' = "Idle"
    /\ ops' = << >>
    /\ trail' = << >>
    /\ UNCHANGED <<localappdata, fs>>

\* update(): process_messages, then the render leaving the wizard as after
Frame(after) ==
    /\ app.screen.name # "Exited"
    /\ app' = after
    /\ rx' = << >>
    /\ prechecks' = IF app.check_requested THEN prechecks + 1 ELSE prechecks
    /\ IF app.fix_requested THEN SpawnFix ELSE UNCHANGED rvars
    /\ UNCHANGED <<apps, scanned, doc>>

\* update() with no click
UpdateOnly ==
    /\ Frame(Shown)
    /\ UNCHANGED requests

\* render_welcome: "Start Protection"
ClickStartProtection ==
    /\ Shown.screen.name = "Welcome"
    /\ requests.check < MaxChecks
    /\ Frame([Shown EXCEPT !.check_requested = TRUE])
    /\ requests' = [requests EXCEPT !.check = @ + 1]

\* render_precheck: "Select Version"
ClickSelectVersion ==
    /\ Shown.screen.name = "PreCheck"
    /\ Shown.capcut_found /\ ~Shown.capcut_running
    /\ Frame([Shown EXCEPT !.screen = Screen("VersionSelect")])
    /\ UNCHANGED requests

\* render_precheck: "Re-Check"
ClickReCheck ==
    /\ Shown.screen.name = "PreCheck"
    /\ ~(Shown.capcut_found /\ ~Shown.capcut_running)
    /\ Shown.capcut_running
    /\ requests.check < MaxChecks
    /\ Frame([Shown EXCEPT !.check_requested = TRUE])
    /\ requests' = [requests EXCEPT !.check = @ + 1]

\* render_precheck: "Back"
ClickBackToWelcome ==
    /\ Shown.screen.name = "PreCheck"
    /\ Frame([Shown EXCEPT !.screen = Screen("Welcome")])
    /\ UNCHANGED requests

\* render_version_select: a click on the row of one version
ClickVersion ==
    /\ Shown.screen.name = "VersionSelect"
    /\ \E idx \in 0..(Len(Shown.available_versions) - 1) :
         Frame([Shown EXCEPT !.selected_version_idx = Some(idx)])
    /\ UNCHANGED requests

\* can_proceed with the button always enabled
CanProceed_Always(a) == TRUE

\* render_version_select: can_proceed
CanProceed(a) == IsSome(a.selected_version_idx)

\* render_version_select: "Apply Protection"
ClickApplyProtection ==
    /\ Shown.screen.name = "VersionSelect"
    /\ CanProceed(Shown)
    /\ requests.fix < MaxRuns
    /\ Frame([Shown EXCEPT !.fix_requested = TRUE])
    /\ requests' = [requests EXCEPT !.fix = @ + 1]

\* render_version_select: "Back"
ClickBackToPreCheck ==
    /\ Shown.screen.name = "VersionSelect"
    /\ Frame([Shown EXCEPT !.screen = Screen("PreCheck")])
    /\ UNCHANGED requests

\* render_error: "Retry"
ClickRetry ==
    /\ Shown.screen.name = "Error"
    /\ Frame([Shown EXCEPT !.screen = Screen("Welcome")])
    /\ UNCHANGED requests

\* render_complete: "Close", std::process::exit(0)
ClickClose ==
    /\ Shown.screen.name = "Complete"
    /\ Frame([Shown EXCEPT !.screen = Screen("Exited")])
    /\ UNCHANGED requests

\* the Apps directory as the pre-check's scan finds it
AppsView ==
    [root |-> "readable",
     entries |-> [n \in DOMAIN fs.versions |->
                     IF fs.versions[n] = "absent" THEN "absent" ELSE "dir"]]

\* the pre-check worker, after its sleep: it looks at the system and sends
PreCheckWorker ==
    /\ prechecks > 0
    /\ app.screen.name # "Exited"
    /\ \E running \in BOOLEAN : \E rd \in ReadDir(AppsView) :
         LET path == IF localappdata THEN Some(<<"Apps">>) ELSE None
             found == IsSome(path) /\ Exists(AppsView)
             versions == IF IsSome(path) THEN scan_versions(AppsView, rd) ELSE << >>
         IN  rx' = Append(rx, PreCheckResult(found, running, path, versions))
    /\ prechecks' = prechecks - 1
    /\ UNCHANGED <<rvars, apps, scanned, doc, app, requests>>

\* run_fix_sequence on its thread, up to its first sleep
FixStart ==
    /\ pc = "fix_spawned"
    /\ Send(<<StepUpdate("Scanning"), LogMessage(<<">> Checking system state...">>)>>)
    /\ trail' = <<<<">> Checking system state...">>>>
    /\ stage' = "CheckingProcess"
    /\ pc' = "fix_check"
    /\ UNCHANGED <<prog, params, localappdata, fs0, fs, i, all_logs, logs, delete_result,
                   protect_result, ret, result, checked, ops>>
    /\ UNCHANGED uvars

\* the directory the scans read changes under the wizard: a version directory
\* is removed by something else (an uninstall), and the last scan is stale
VersionRemoved ==
    /\ \E n \in Versions :
         /\ fs.versions[n] # "absent"
         /\ fs' = [fs EXCEPT !.versions[n] = "absent"]
    /\ UNCHANGED <<prog, pc, params, localappdata, fs0, i, all_logs, logs, delete_result,
                   protect_result, ret, sent, result, checked, stage, ops, trail>>
    /\ UNCHANGED <<uvars, rx>>

InitWizard ==
    /\ AtRest
    /\ localappdata \in BOOLEAN
    /\ fs = BareFs
    /\ fs0 = fs
    /\ Unused

NextWizard ==
    \/ UpdateOnly
    \/ ClickStartProtection
    \/ ClickSelectVersion
    \/ ClickReCheck
    \/ ClickBackToWelcome
    \/ ClickVersion
    \/ ClickApplyProtection
    \/ ClickBackToPreCheck
    \/ ClickRetry
    \/ ClickClose
    \/ PreCheckWorker
    \/ VersionRemoved
    \/ FixStart
    \/ FixCheck
    \/ FixDeleteVersion
    \/ FixDeleteDone
    \/ FixLockConfiguration
    \/ CreatePinfo
    \/ CreateDownloadDir
    \/ CreateUpdateExe
    \/ FixBlockersReturn

SpecWizard == InitWizard /\ [][NextWizard]_vars

\* a run is started only when no run is under way
OneRunAtATime == [][app.fix_requested /\ app' # app => pc \in {"idle", "done"}]_vars

(* Vocabulary of the wizard properties *)

\* this step is the update() that starts a protection run
Started == app.fix_requested /\ app' # app

\* the selection is an index into the scanned list
ValidSelection(a) ==
    /\ IsSome(a.selected_version_idx)
    /\ Unwrap(a.selected_version_idx) < Len(a.available_versions)

\* the list without its k-th entry (k counts from 1)
Without(list, k) == SubSeq(list, 1, k - 1) \o SubSeq(list, k + 1, Len(list))

\* a run was started on a list that a later scan had emptied, with the
\* selection made on the earlier list
StaleSelectionStarted ==
    /\ prog = "run_fix_sequence"
    /\ pc = "fix_spawned"
    /\ app.available_versions = << >>
    /\ IsSome(app.selected_version_idx)

\* C14: a run started with a valid selection marks every scanned entry but the
\* selected one, wherever it stands in the list; a run started with no valid
\* selection marks none
C14_ExplicitRetention ==
    [][Started =>
          params'.versions_to_delete =
              IF ValidSelection(app)
              THEN Without(app.available_versions, Unwrap(app.selected_version_idx) + 1)
              ELSE << >>]_vars

C14_Witness ==
    /\ prog = "run_fix_sequence"
    /\ pc = "fix_spawned"
    /\ app.available_versions = <<"1.5.0", "2.9.0">>
    /\ app.selected_version_idx = Some(1)
    /\ params.versions_to_delete = <<"1.5.0">>

\* the version the run keeps, if any
Kept == IF IsSome(params.selected_version) THEN {Unwrap(params.selected_version)} ELSE {}

\* the kept version is not among the directories the run has removed
KeptNotDeleted ==
    prog = "run_fix_sequence" =>
        \A k \in 1..Len(ops) : \A n \in Kept : ops[k].path # VersionPath(n)

\* C15: for every run the entries marked for deletion and the kept entry are
\* disjoint and together make the scanned list, and the kept version is never
\* among the directories deleted
C15_RetentionPartition ==
    /\ [][Started =>
            /\ Range(params'.versions_to_delete) \cap Kept' = {}
            /\ Range(params'.versions_to_delete) \cup Kept' = Range(app.available_versions)
            /\ Len(params'.versions_to_delete) + Cardinality(Kept')
                   = Len(app.available_versions)]_vars
    /\ []KeptNotDeleted

C15_Witness ==
    /\ prog = "run_fix_sequence"
    /\ stage = "Complete"
    /\ params.selected_version = Some("1.5.0")
    /\ params.versions_to_delete = <<"2.9.0">>
    /\ fs.versions["2.9.0"] = "absent"
    /\ fs.versions["1.5.0"] = "present"
    /\ \E k \in 1..Len(ops) :
         ops[k] = Op("remove_dir_all", VersionPath("2.9.0"), TRUE)

-----------------------------------------------------------------------------
(* Properties of the config rewrite and the blockers inside a run (Spec) *)

\* the log entry that opens the config stage
ModifyingConfig ==
    IF prog = "run_fix_sequence"
    THEN <<">> Modifying config...">>
    ELSE <<"Modifying config...">>

\* the run ended in the config stage: its last log entry opens that stage
EndedInConfigStage ==
    /\ Done
    /\ Halted
    /\ trail # << >>
    /\ trail[Len(trail)] = ModifyingConfig

\* C22: the config rewrite fails only when its write fails. Its one operation
\* on the filesystem that can end the run is the write; a run that ends in the
\* config stage ends on a failed write, and a failed write ends the run as
\* Failed; after a successful write the file is the rewrite of what was read
\* or, the file missing or unreadable, of the empty text.
C22_ConfigFailsOnlyOnWrite ==
    /\ \A k \in 1..Len(ops) :
          IsConfigOp(ops[k]) =>
              /\ ops[k].op = "write"
              /\ ~ops[k].ok =>
                    /\ k = Len(ops)
                    /\ EndedInConfigStage
                    /\ Orchestrated => stage = "Failed"
              /\ ops[k].ok =>
                    /\ fs.config \in {Some(LockedContent(c)) : c \in Contents(fs0.config)}
                    /\ ~EndedInConfigStage
    /\ EndedInConfigStage =>
          /\ ops # << >>
          /\ ops[Len(ops)] = Op("write", ConfigPath, FALSE)

\* an existing configure.ini could not be read and the run went on to success
C22_Witness ==
    /\ Orchestrated
    /\ fs0.config = Some(ConfigOld)
    /\ fs.config = Some(LOCKED_LINE)
    /\ Done
    /\ Succeeded

-----------------------------------------------------------------------------
(* create_readonly on its own, called again and again on one path *)

\* what the path can be before the first call
PathStates ==
    {Absent, EmptyFile, Placeholder, RealFile, Directory,
     [RealFile EXCEPT !.readonly = TRUE], [Directory EXCEPT !.readonly = TRUE]}

InitPlaceholder ==
    /\ AtRest
    /\ localappdata = TRUE
    /\ fs = BareFs
    /\ fs0 = fs
    /\ apps = NoApps
    /\ scanned = None
    /\ doc \in {NewDoc(s) : s \in PathStates}
    /\ app = NewApp
    /\ rx = << >>
    /\ prechecks = 0
    /\ requests = NoRequests

\* one call of create_readonly: the path before, the operations made, the
\* result, the path after
CreateReadonlyCall ==
    /\ Len(doc.calls) < MaxCalls
    /\ \E o \in create_readonly(PinfoPath, doc.file) :
         doc' = [file |-> o.st,
                 calls |-> Append(doc.calls,
                     [before |-> doc.file, ops |-> o.ops, ret |-> o.ret, after |-> o.st])]
    /\ UNCHANGED <<rvars, apps, scanned, app, prechecks, requests, rx>>

NextPlaceholder == CreateReadonlyCall

SpecPlaceholder == InitPlaceholder /\ [][NextPlaceholder]_vars

(* Vocabulary of the placeholder properties *)

\* the call made the operation op, and it failed
FailedOp(c, op) == \E k \in 1..Len(c.ops) : c.ops[k].op = op /\ ~c.ops[k].ok

\* the call made the operation op
Made(c, op) == \E k \in 1..Len(c.ops) : c.ops[k].op = op

\* the call's removal of the old path failed
RemovalFailed(c) == FailedOp(c, "remove_file") \/ FailedOp(c, "remove_dir_all")

\* C23: after a call that returns success the path is an empty read-only
\* regular file, whatever it was before, and a following call that returns
\* success leaves it as it is
C23_PlaceholderRoundTrip ==
    \A k \in 1..Len(doc.calls) :
        doc.calls[k].ret.ok =>
            /\ doc.calls[k].after = Placeholder
            /\ (k < Len(doc.calls) /\ doc.calls[k + 1].ret.ok) =>
                  doc.calls[k + 1].after = doc.calls[k].after

\* C24: a call whose removal, write or attribute step failed returns an error:
\* a call that returns success made no failing step and left the path read-only
C24_EveryFailureReported ==
    \A c \in Calls :
        c.ret.ok =>
            /\ \A k \in 1..Len(c.ops) : c.ops[k].ok
            /\ c.after.readonly

\* C25: when the removal of the old path fails, the call returns that error,
\* writes nothing and does not run attrib; the path is still what it was, with
\* at most its read-only attribute cleared
C25_RemovalFailureStops ==
    \A c \in Calls :
        RemovalFailed(c) =>
            /\ c.ret = Err(<<IoError>>)
            /\ ~Made(c, "write")
            /\ ~Made(c, "attrib")
            /\ c.after \in AfterUnset(c.before)

\* a read-only placeholder that could not be removed, its attribute still set
C25_Witness ==
    \E c \in Calls :
        /\ c.before = Placeholder
        /\ RemovalFailed(c)
        /\ c.after = Placeholder

-----------------------------------------------------------------------------
(* Properties of create_dummy_files inside a run (Spec) *)

\* the operations of the run on the three blocker paths, in the order made
BlockerOps == SelectSeq(ops, IsBlockerOp)

\* the step of create_dummy_files an operation belongs to
BlockerRank(o) ==
    IF o.path = PinfoPath THEN 1
    ELSE IF o.path = DownloadPath THEN 2
    ELSE 3

\* the step on this path was attempted, and it failed
BlockerFailed(path) ==
    \E k \in 1..Len(ops) : ops[k].path = path /\ ~ops[k].ok

\* C26: the blockers are installed in the order ProductInfo.xml, the Download
\* directory, update.exe; a step is attempted only after the step before it
\* succeeded, a failing operation is the last one, and what a failed step
\* did not reach is as it was before the run
C26_BlockersInOrder ==
    /\ \A a, b \in 1..Len(BlockerOps) :
          a < b => BlockerRank(BlockerOps[a]) <= BlockerRank(BlockerOps[b])
    /\ \A k \in 1..Len(BlockerOps) : ~BlockerOps[k].ok => k = Len(BlockerOps)
    /\ (\E k \in 1..Len(ops) : ops[k].path = DownloadPath) => Installed(PinfoPath)
    /\ (\E k \in 1..Len(ops) : ops[k].path = UpdateExePath) =>
          /\ Installed(PinfoPath)
          /\ \E k \in 1..Len(ops) : ops[k] = Op("create_dir_all", DownloadPath, TRUE)
    /\ BlockerFailed(PinfoPath) =>
          /\ fs.download = fs0.download
          /\ fs.update_exe = fs0.update_exe
    /\ BlockerFailed(DownloadPath) => fs.update_exe = fs0.update_exe

\* the ProductInfo.xml placeholder could not be installed: the run is over,
\* the Download directory is still missing
C26_Witness ==
    /\ params.create_blockers
    /\ BlockerFailed(PinfoPath)
    /\ ~fs0.download
    /\ ~fs.download
    /\ Done
    /\ Halted

-----------------------------------------------------------------------------
(* Properties of unset_readonly_recursive inside a run (Spec) *)

IsUnset(o) == o.op = "unset_readonly_recursive"

\* C27: unset_readonly_recursive returns success every time: each call is
\* followed by the removal it prepares, whether or not the attribute could
\* be cleared, and no "[!] Warning" entry is ever logged
C27_UnsetNeverFails ==
    /\ \A k \in 1..Len(ops) :
          IsUnset(ops[k]) =>
              /\ ops[k].ok
              /\ k < Len(ops)
              /\ ops[k + 1].op \in {"remove_dir_all", "remove_file"}
              /\ ops[k + 1].path = ops[k].path
    /\ \A j \in 1..Len(trail) : trail[j][1] # "[!] Warning: "
    /\ \A j \in 1..Len(sent) :
          sent[j].type = "LogMessage" => sent[j].text[1] # "[!] Warning: "
    /\ IsSome(result) =>
          \A j \in 1..Len(Unwrap(result).logs) : Unwrap(result).logs[j][1] # "[!] Warning: "

\* a run that deleted a version directory and then met a read-only
\* ProductInfo.xml whose attribute could not be cleared: the removal was
\* attempted all the same
C27_Witness ==
    /\ \E k \in 1..Len(ops) : IsUnset(ops[k]) /\ IsVersionOp(ops[k])
    /\ \E k \in 1..Len(ops) : IsUnset(ops[k]) /\ ops[k].path = PinfoPath
    /\ fs0.pinfo = Placeholder
    /\ fs.pinfo = Placeholder
    /\ BlockerFailed(PinfoPath)
    /\ Done

-----------------------------------------------------------------------------
(* Properties of the wizard's protection runs (SpecWizard) *)

\* a message of the worker on run_fix_sequence
FromFixWorker(msg) == msg.type \in {"StepUpdate", "LogMessage", "FixComplete"}

\* the worker of the last run started is still on its way to FixComplete
InFlight == pc \notin {"idle", "done"}

\* C28: the update() that starts a protection run finds no run in flight: the
\* worker of the run before, if there was one, has sent its FixComplete, and
\* the wizard has received it and every other message of that run
C28_OneRunInFlight ==
    [][Started =>
          /\ ~InFlight
          /\ \A k \in 1..Len(rx) : ~FromFixWorker(rx[k])
          /\ pc = "done" =>
                /\ sent # << >>
                /\ sent[Len(sent)].type = "FixComplete"]_vars

\* a second run has been started
C28_Witness ==
    /\ requests.fix = 2
    /\ prog = "run_fix_sequence"
    /\ pc = "fix_spawned"
    /\ app.screen.name = "Running"

\* one step of the thread on run_fix_sequence
FixWorker ==
    \/ FixStart
    \/ FixCheck
    \/ FixDeleteVersion
    \/ FixDeleteDone
    \/ FixLockConfiguration
    \/ CreatePinfo
    \/ CreateDownloadDir
    \/ CreateUpdateExe
    \/ FixBlockersReturn

\* the wizard and its threads with nothing else touching the Apps directory
NextWizardAlone ==
    \/ UpdateOnly
    \/ ClickStartProtection
    \/ ClickSelectVersion
    \/ ClickReCheck
    \/ ClickBackToWelcome
    \/ ClickVersion
    \/ ClickApplyProtection
    \/ ClickBackToPreCheck
    \/ ClickRetry
    \/ ClickClose
    \/ PreCheckWorker
    \/ FixWorker

\* the wizard with its scheduling: the spawned thread keeps running, and
\* update() keeps being called while there is something for it to do (the
\* repaint requested while is_working())
SpecWizardLive ==
    /\ InitWizard
    /\ [][NextWizardAlone]_vars
    /\ WF_vars(FixWorker)
    /\ WF_vars(UpdateOnly)

\* positions of the FixComplete messages among those the run has sent
Completions == {k \in 1..Len(sent) : sent[k].type = "FixComplete"}

\* the run has sent at most one FixComplete and nothing after it; it has sent
\* one exactly when the worker is through, and the run is then Complete or
\* Failed as that message says
OneCompletion ==
    /\ Cardinality(Completions) <= 1
    /\ \A k \in Completions : k = Len(sent)
    /\ (pc = "done") = (Completions # {})
    /\ pc = "done" =>
          stage = IF sent[Len(sent)].res.ok THEN "Complete" ELSE "Failed"
    /\ pc # "done" => stage \notin {"Complete", "Failed"}

\* the FixComplete messages waiting in the channel
Arrived == {k \in 1..Len(rx) : rx[k].type = "FixComplete"}

\* this update() takes the wizard off the Running screen
LeavesRunning == app.screen.name = "Running" /\ app'.screen.name # "Running"

\* C29: a run sends exactly one FixComplete, as its last message, and is then
\* Complete or Failed; the wizard stays on Running until it receives it and
\* then shows Complete when it carries Ok and Error, with the message, when
\* it carries Err; no run stays in flight for ever and the wizard does not
\* stay on Running for ever
C29_RunEndsOnce ==
    /\ [](prog = "run_fix_sequence" => OneCompletion)
    /\ [][LeavesRunning =>
             /\ Arrived # {}
             /\ \A k \in Arrived :
                   /\ rx[k] = sent[Len(sent)]
                   /\ Shown.screen = IF rx[k].res.ok THEN Screen("Complete")
                                     ELSE ErrorScreen(rx[k].res.err)]_vars
    /\ [][(app.screen.name = "Running" /\ Arrived # {}) =>
             app'.screen.name # "Running" \/ app' = app]_vars
    /\ []<>(~InFlight)
    /\ []<>(app.screen.name # "Running")

\* a run failed and the wizard shows its error
C29_Witness ==
    /\ prog = "run_fix_sequence"
    /\ pc = "done"
    /\ stage = "Failed"
    /\ ops # << >>
    /\ app.screen.name = "Error"
    /\ app.screen.msg = sent[Len(sent)].res.err

-----------------------------------------------------------------------------
(* The wizard on an installation with three versions, used as it comes: the
   pre-check, the version screen with the row it preselects, one run *)

\* the installation: three version directories, a configure.ini with the key
ScenarioFs ==
    [versions |-> [v \in {"1.5.0", "2.9.0", "3.2.0"} |-> "present"],
     config |-> Some(ConfigOld),
     pinfo |-> Absent, download |-> FALSE, update_exe |-> Absent]

InitScenario ==
    /\ AtRest
    /\ localappdata = TRUE
    /\ fs = ScenarioFs
    /\ fs0 = fs
    /\ Unused

\* the clicks that lead from the welcome screen to a run, the selection left
\* as the pre-check result set it
NextScenario ==
    \/ UpdateOnly
    \/ ClickStartProtection
    \/ ClickSelectVersion
    \/ ClickApplyProtection
    \/ PreCheckWorker
    \/ FixWorker

SpecScenario == InitScenario /\ [][NextScenario]_vars

\* the run went through every step without an error and the wizard shows it
ScenarioComplete ==
    /\ prog = "run_fix_sequence"
    /\ pc = "done"
    /\ stage = "Complete"
    /\ app.screen.name = "Complete"

\* the log entries that open a step or announce a deletion, in the order shown
StepEntries ==
    SelectSeq(app.action_log,
              LAMBDA e : e[1] \in {">> Checking system state...", ">> Deleting: ",
                                   ">> Modifying config...", ">> Creating blockers..."})

\* the blocker at this path is an empty regular file
BlockerFile(s) == s.kind = "file" /\ s.empty

\* C30: on the installation with 1.5.0, 2.9.0 and 3.2.0, the process not
\* running and the selection left at its default, a run that ends in Complete
\* has deleted 3.2.0 and nothing else, has left configure.ini with the line
\* last_version=1.0.0.0, has created the two blocker files,
\* and the log shows one entry for each step in order
C30_ScenarioDeletesNewestOnly ==
    ScenarioComplete =>
        /\ fs.versions = [v \in DOMAIN fs.versions |->
                             IF v = "3.2.0" THEN "absent" ELSE "present"]
        /\ ConfigLocked
        /\ BlockerFile(fs.pinfo)
        /\ fs.download
        /\ BlockerFile(fs.update_exe)
        /\ StepEntries = << <<">> Checking system state...">>,
                            <<">> Deleting: ", "3.2.0">>,
                            <<">> Modifying config...">>,
                            <<">> Creating blockers...">> >>

-----------------------------------------------------------------------------
(* Properties of the stages of a whole run (Spec) *)

\* the cache cleaning of this run returned a failure
CacheFailed == \E k \in 1..Len(ops) : IsCacheOp(ops[k]) /\ ~ops[k].ok

\* C31: the failure of any executed stage ends the run as Failed, the cache
\* stage of run_full_protection included: a run whose filesystem call or
\* cache cleaning failed returns success = false with an error
C31_EveryFailureFails ==
    (Orchestrated /\ Done /\ \E k \in 1..Len(ops) : ~ops[k].ok) =>
        /\ stage = "Failed"
        /\ Halted

\* the run is past its deletion stage
PastDeletion == pc \notin {"idle", "check", "delete", "fix_spawned", "fix_check", "fix_delete"}

\* how often the entry e stands in the run's log
Logged(e) == Cardinality({k \in 1..Len(trail) : trail[k] = e})

\* the config write of this run failed
ConfigFailed == \E k \in 1..Len(ops) : IsConfigOp(ops[k]) /\ ~ops[k].ok

\* C32: a run given an empty list of versions makes no deletion, logs
\* "[OK] No versions to delete" once when the deletion stage ends, and goes on:
\* the config rewrite is attempted when it is enabled, the blockers are
\* attempted when they are enabled and the rewrite did not fail, and a run in
\* which no call failed succeeds
C32_EmptyListIsLogged ==
    (Orchestrated /\ Paths = << >> /\ checked = "clear" /\ ~EnvAbsent) =>
        /\ \A k \in 1..Len(ops) : ~IsVersionOp(ops[k])
        /\ Logged(<<"[OK] No versions to delete">>) = IF PastDeletion THEN 1 ELSE 0
        /\ Done =>
              /\ params.lock_config => \E k \in 1..Len(ops) : IsConfigOp(ops[k])
              /\ (params.create_blockers /\ ~ConfigFailed) =>
                    \E k \in 1..Len(ops) : IsBlockerOp(ops[k])
              /\ (\A k \in 1..Len(ops) : ~FailedAt(k)) => Succeeded

\* a run given no version to delete that locked the config and installed the
\* blockers
C32_Witness ==
    /\ Orchestrated
    /\ Paths = << >>
    /\ Done
    /\ Succeeded
    /\ Logged(<<"[OK] No versions to delete">>) = 1
    /\ \E k \in 1..Len(ops) : ops[k] = Op("write", ConfigPath, TRUE)
    /\ Installed(UpdateExePath)

\* the entries that stand for a disabled stage
SkipCache == <<"Skipping cache cleaning (disabled)">>
SkipConfig == <<"Skipping config lock (disabled)">>
SkipBlockers == <<"Skipping blocker creation (disabled)">>
SkipAll == <<"Skipping protection (all options disabled)">>

\* the skip entries of the run's log, in the order logged
Skips == SelectSeq(trail, LAMBDA e : e \in {SkipCache, SkipConfig, SkipBlockers, SkipAll})

\* the run's log from the entry that closed the deletion stage on
AfterDeletion ==
    LET last == CHOOSE k \in 1..Len(trail) : trail[k] = DeletedEntry(Len(Paths))
    IN  SubSeq(trail, last + 1, Len(trail))

\* l is the beginning of m
IsPrefix(l, m) == Len(l) <= Len(m) /\ SubSeq(m, 1, Len(l)) = l

\* C33 as stated: a run of run_full_protection that succeeds has logged, for
\* each of the three stages that is disabled, that stage's own skip entry, once
C33_EachDisabledStageLogs ==
    (prog = "run_full_protection" /\ Done /\ Succeeded) =>
        /\ ~params.clean_cache => Logged(SkipCache) = 1
        /\ ~params.lock_config => Logged(SkipConfig) = 1
        /\ ~params.create_blockers => Logged(SkipBlockers) = 1

\* the skip entries a run of run_full_protection with these flags logs
ExpectedSkips ==
    (IF params.clean_cache THEN << >> ELSE <<SkipCache>>)
    \o (IF ~params.lock_config /\ ~params.create_blockers THEN <<SkipAll>>
        ELSE (IF params.lock_config THEN << >> ELSE <<SkipConfig>>)
             \o (IF params.create_blockers THEN << >> ELSE <<SkipBlockers>>))

\* the log of the protection stages of a run that succeeds
ExpectedProtection ==
    IF ~params.lock_config /\ ~params.create_blockers THEN <<SkipAll>>
    ELSE (IF params.lock_config
          THEN <<<<"Modifying config...">>, <<"[OK] Configuration locked">>>>
          ELSE <<SkipConfig>>)
         \o (IF params.create_blockers
             THEN <<<<"Creating blockers...">>, <<"[OK] Update blockers created">>>>
             ELSE <<SkipBlockers>>)

\* C33 amended: the cache stage has its own skip entry; the config and the
\* blocker stage have each their own when the other is enabled and one common
\* entry when both are disabled. The skip entries logged are at every moment
\* the beginning of that list, all of it when the run succeeds, and each
\* stands where the stage's entries would stand
C33_DisabledStagesLogged ==
    prog = "run_full_protection" =>
        /\ IsPrefix(Skips, ExpectedSkips)
        /\ (Done /\ Succeeded) =>
              /\ Skips = ExpectedSkips
              /\ \E cache \in {<<SkipCache>>} \cup
                       {<<<<"Cleaning cache directories...">>>> \o c.logs : c \in clean_cache} :
                    /\ (cache = <<SkipCache>>) = ~params.clean_cache
                    /\ AfterDeletion = cache \o ExpectedProtection

\* a successful run with the cache stage and the config stage disabled and the
\* blockers enabled
C33_Witness ==
    /\ prog = "run_full_protection"
    /\ ~params.clean_cache /\ ~params.lock_config /\ params.create_blockers
    /\ Done
    /\ Succeeded
    /\ Skips = <<SkipCache, SkipConfig>>

-----------------------------------------------------------------------------
(* Properties of the wizard's selection and pre-checks (SpecWizard) *)

\* positions of the pre-check results waiting in the channel
Results == {k \in 1..Len(rx) : rx[k].type = "PreCheckResult"}

\* the last pre-check result waiting in the channel lists a version
LastResultListsVersions ==
    /\ Results # {}
    /\ rx[CHOOSE k \in Results : \A j \in Results : j <= k].versions # << >>

\* this step is an update(): it empties the channel
IsFrame == rx' = << >> /\ app.screen.name # "Exited"

\* this update() may hold a click on a row of the version list
RowClicked ==
    /\ Shown.screen.name = "VersionSelect"
    /\ IsSome(app'.selected_version_idx)
    /\ Unwrap(app'.selected_version_idx) < Len(Shown.available_versions)

\* the first entry of the list stands before every other in version order
OldestFirst(list) == \A k \in 2..Len(list) : Precedes(list[1], list[k])

\* C34: an update() that receives a pre-check result with a non-empty list
\* leaves the selection at index 0 unless a row is clicked in it; the
\* selection changes in no other way; a run started with the selection at
\* index 0 keeps the first entry of the list, which is the oldest, and
\* deletes every other entry
C34_DefaultKeepsOldest ==
    [][/\ (IsFrame /\ LastResultListsVersions) =>
              app'.selected_version_idx = Some(0) \/ RowClicked
       /\ app'.selected_version_idx # app.selected_version_idx =>
              \/ IsFrame /\ \E k \in Results : rx[k].versions # << >>
              \/ IsFrame /\ RowClicked
       /\ (Started /\ app.selected_version_idx = Some(0)
                   /\ app.available_versions # << >>) =>
              /\ OldestFirst(app.available_versions)
              /\ params'.selected_version = Some(Head(app.available_versions))
              /\ params'.versions_to_delete = Tail(app.available_versions)]_vars

\* a run started on two versions with the selection as the pre-check left it
C34_Witness ==
    /\ prog = "run_fix_sequence"
    /\ pc = "fix_spawned"
    /\ app.selected_version_idx = Some(0)
    /\ app.available_versions = <<"1.5.0", "2.9.0">>
    /\ params.selected_version = Some("1.5.0")
    /\ params.versions_to_delete = <<"2.9.0">>

\* C35: the update() that starts a protection run finds no pre-check worker
\* in flight and no pre-check result waiting: what the wizard holds is the
\* result of the pre-check requested last
C35_NoPreCheckInFlight ==
    [][Started => prechecks = 0 /\ Results = {}]_vars

\* C36: the update() that takes the wizard off the Running screen leaves in
\* action_log the texts of the LogMessages the worker of this run has sent, all
\* of them and in the order sent, and nothing else; the log stays so while the
\* Complete or the Error screen is shown
C36_LogIsRunsMessages ==
    /\ [](app.screen.name \in {"Complete", "Error"} => app.action_log = Texts(sent))
    /\ [][LeavesRunning => sent' = sent /\ app'.action_log = Texts(sent)]_vars

\* the second run of the wizard is over and its log is shown
C36_Witness ==
    /\ requests.fix = 2
    /\ pc = "done"
    /\ app.screen.name = "Complete"
    /\ Len(app.action_log) > 3
    /\ app.action_log = Texts(sent)

\* C37: whenever the wizard's version list is not empty its selection is an
\* index into the list, and a run started on a non-empty list keeps the entry
\* at that index
C37_SelectionInRange ==
    /\ [](app.available_versions # << >> => ValidSelection(app))
    /\ [][(Started /\ app.available_versions # << >>) =>
             /\ ValidSelection(app)
             /\ params'.selected_version =
                   Some(app.available_versions[Unwrap(app.selected_version_idx) + 1])]_vars

\* a second pre-check has found one version left where the first found two,
\* and a run was started on it
C37_Witness ==
    /\ requests.check = 2
    /\ app.available_versions = <<"2.9.0">>
    /\ app.selected_version_idx = Some(0)
    /\ prog = "run_fix_sequence"
    /\ pc = "fix_spawned"
    /\ params.selected_version = Some("2.9.0")

=============================================================================
